---- MODULE Spec2Model ----
(***************************************************************************)
(* A model of the SimFlowDataBot lap/telemetry analytics pipeline:         *)
(*   DataParser._clean_lap_time_data   (scripts/analysis/data_parser.py)   *)
(*   LapAnalyzer                       (scripts/analysis/lap_analyzer.py)  *)
(*   TelemetryAnalyzer            (scripts/analysis/telemetry_analyzer.py) *)
(*   KPICalculator: grade bands, the session report and its JSON export    *)
(*                                     (scripts/analysis/kpi_calculator.py)*)
(*   ReportGenerator._generate_json_report                                 *)
(*                                   (scripts/analysis/report_generator.py)*)
(*   DataParser.parse_vehicle_data     (scripts/analysis/data_parser.py)   *)
(*   DataParser.get_session_metadata, parse_telemetry_data and             *)
(*   _clean_telemetry_data             (scripts/analysis/data_parser.py)   *)
(*   analyze_session, analyze_multiple_sessions (scripts/analyze_session.py)*)
(*                                                                         *)
(* Representation.                                                         *)
(*  - A text is a sequence of one-character strings, so that substring     *)
(*    tests, strip() and the time pattern are computed, not assumed.       *)
(*  - A nullable value is a sequence of length at most one: <<>> is        *)
(*    None/NaN-as-missing, <<v>> is the value v.                           *)
(*  - Lap and sector times are integers in tenths of a second; the time    *)
(*    tokens of the model all have a millisecond part that is a multiple   *)
(*    of 100, so the conversion is exact.  Floating-point rounding is not  *)
(*    modelled: sums, means and comparisons are those of the reals.        *)
(*  - A mean is the exact fraction [num, den].  A standard deviation is    *)
(*    held by its square, the exact fraction [num, den] of the sample      *)
(*    variance (ddof = 1, as pandas' Series.std), or it is NaN.            *)
(***************************************************************************)
EXTENDS Integers, Sequences, FiniteSets, TLC

VARIABLES
    pc,             \* position of the lap pipeline
    raw,            \* the raw "Track Sections (All Laps)" table read from parquet
    lapTable,       \* DataParser's result (the caller's lap_data frame)
    sector_columns, \* LapAnalyzer.sector_columns
    lap_data,       \* LapAnalyzer.lap_data (the analyzer's own copy)
    removed,        \* outliers_removed of the last _clean_lap_data
    result,         \* LapAnalysisResult of analyze_laps / get_lap_summary
    exc,            \* the exception that left the lap pipeline, or "none"
    tpc,            \* position of the telemetry analysis
    telemetry,      \* TelemetryAnalyzer.telemetry_data
    warned,         \* required columns _validate_columns warned about
    kpis,           \* result map of get_advanced_telemetry_kpis
    gpc,            \* position of the grade computation
    scores,         \* two composite scores handed to the grade bands
    grades,         \* their letter grades
    kpc,            \* position of the KPI calculation
    kpi_metadata,   \* KPICalculator.session_metadata
    kpi_summary,    \* the lap summary handed to calculate_session_kpis
    kpi_vehicle,    \* the vehicle data handed to it
    kpi_telemetry,  \* the telemetry KPIs handed to it
    report,         \* the KPI report calculate_session_kpis returns
    kexc,           \* the section whose exception left calculate_session_kpis, or "none"
    json_report,    \* the number tokens of <session>_analysis.json
    json_kpis,      \* the number tokens of <session>_kpis.json
    vpc,            \* position of the vehicle-data parse
    session_parquet, \* the vehicle files of <session>/PARQUET
    base_parquet,   \* the vehicle files of the shared PARQUET directory
    has_base_path,  \* DataParser.base_parquet_path is set
    parsed_vehicle, \* the map parse_vehicle_data returns
    bpc,            \* position of analyze_multiple_sessions
    sessions_dir,   \* the entries of the sessions directory, None if it does not exist
    session_dirs,   \* the session directories found
    successful,     \* sessions whose analysis returned True
    failed,         \* sessions whose analysis returned False
    runs,           \* the calls of analyze_session made, in order
    returned,       \* the value analyze_multiple_sessions returned
    mpc,            \* position of the metadata extraction
    driverinputs,   \* the session-local driverinputs.parquet, None if there is none
    base_driverinputs, \* the shared driverinputs.parquet, None if there is none
    base_given,     \* whether DataParser was given a shared PARQUET directory
    parser_metadata, \* result of get_session_metadata
    session_info,   \* the session_info section built from the metadata
    ipc,            \* position of the telemetry ingestion
    parsed_telemetry \* result of parse_telemetry_data

lapVars == <<pc, raw, lapTable, sector_columns, lap_data, removed, result, exc>>
telVars == <<tpc, telemetry, warned, kpis>>
gradeVars == <<gpc, scores, grades>>
kpiVars == <<kpc, kpi_metadata, kpi_summary, kpi_vehicle, kpi_telemetry,
             report, kexc, json_report, json_kpis>>
vehVars == <<vpc, session_parquet, base_parquet, has_base_path, parsed_vehicle>>
batchVars == <<bpc, sessions_dir, session_dirs, successful, failed, runs, returned>>
ingestVars == <<mpc, driverinputs, base_driverinputs, base_given, parser_metadata, session_info,
                ipc, parsed_telemetry>>
vars == <<lapVars, telVars, gradeVars, kpiVars, vehVars, batchVars, ingestVars>>

----------------------------------------------------------------------------
(* Bounds of the model *)

\* A raw lap table holds at most MaxCells (sector, lap) cells that vary.
MaxCells == 6
\* A telemetry table holds at most MaxSamples rows.
MaxSamples == 3
\* Composite scores range over 0..MaxScore (and NaN).
MaxScore == 100
\* At most MaxVehicleFiles of the six vehicle files exist in either directory.
MaxVehicleFiles == 3
\* The sessions directory holds at most MaxEntries entries.
MaxEntries == 3
\* Filler rows on top of a metadata table, and rows that may carry a marker
MaxFillerRows == 10
MaxMarkerRows == 3
\* Rows above the header of a telemetry table, and data rows below it
MaxPreRows == 2
MaxDataRows == 2

----------------------------------------------------------------------------
(* Nullable values and small helpers *)

None == <<>>
Some(v) == <<v>>
IsNull(o) == o = <<>>
NotNull(o) == o # <<>>
Val(o) == o[1]

Min2(a, b) == IF a <= b THEN a ELSE b
Max2(a, b) == IF a >= b THEN a ELSE b

RECURSIVE SumSeq(_)
SumSeq(s) == IF s = <<>> THEN 0 ELSE s[1] + SumSeq(Tail(s))

RECURSIVE SumSq(_)
SumSq(s) == IF s = <<>> THEN 0 ELSE s[1] * s[1] + SumSq(Tail(s))

RECURSIVE MinSeq(_)
MinSeq(s) == IF Len(s) = 1 THEN s[1] ELSE Min2(s[1], MinSeq(Tail(s)))

RECURSIVE SelectIdx(_, _, _)
\* The elements of s at the indices i >= from for which keep[i], in order.
SelectIdx(s, keep, from) ==
    IF from > Len(s) THEN <<>>
    ELSE (IF keep[from] THEN <<s[from]>> ELSE <<>>) \o SelectIdx(s, keep, from + 1)

\* Python's slice s[a:b] for 0 <= a.
Slice(s, a, b) == [i \in 1..Max2(0, Min2(b, Len(s)) - a) |-> s[a + i]]

----------------------------------------------------------------------------
(* Texts: str.lower, str.strip, substring, startswith, endswith *)

UpperCase == <<"A","B","C","D","E","F","G","H","I","J","K","L","M",
               "N","O","P","Q","R","S","T","U","V","W","X","Y","Z">>
LowerCase == <<"a","b","c","d","e","f","g","h","i","j","k","l","m",
               "n","o","p","q","r","s","t","u","v","w","x","y","z">>
Digits == <<"0","1","2","3","4","5","6","7","8","9">>

LowerChar(c) ==
    IF \E i \in 1..26 : UpperCase[i] = c
    THEN LowerCase[CHOOSE i \in 1..26 : UpperCase[i] = c]
    ELSE c
Lower(s) == [i \in 1..Len(s) |-> LowerChar(s[i])]

IsDigit(c) == \E i \in 1..10 : Digits[i] = c
DigitVal(c) == (CHOOSE i \in 1..10 : Digits[i] = c) - 1
DigitChar(d) == Digits[d + 1]

IsSpace(c) == c \in {" ", "\t", "\n"}
RECURSIVE LStrip(_)
LStrip(s) == IF s # <<>> /\ IsSpace(s[1]) THEN LStrip(Tail(s)) ELSE s
RECURSIVE RStrip(_)
RStrip(s) ==
    IF s # <<>> /\ IsSpace(s[Len(s)]) THEN RStrip(SubSeq(s, 1, Len(s) - 1)) ELSE s
Strip(s) == RStrip(LStrip(s))

Contains(s, sub) ==
    \E i \in 0..(Len(s) - Len(sub)) : \A j \in 1..Len(sub) : s[i + j] = sub[j]
StartsWith(s, pre) ==
    Len(s) >= Len(pre) /\ \A j \in 1..Len(pre) : s[j] = pre[j]
EndsWith(s, suf) ==
    Len(s) >= Len(suf) /\ \A j \in 1..Len(suf) : s[Len(s) - Len(suf) + j] = suf[j]

----------------------------------------------------------------------------
(* DataParser: time tokens *)

\* _is_valid_time: re.match(r'^\d{1,2}:\d{2}\.\d{3}$', time_str.strip())
IsValidTime(time_str) ==
    LET t == Strip(time_str)
        m == IF Len(t) >= 2 /\ t[2] = ":" THEN 1 ELSE 2   \* digits of the minutes
    IN  /\ Len(t) = m + 7
        /\ \A i \in 1..m : IsDigit(t[i])
        /\ t[m + 1] = ":"
        /\ IsDigit(t[m + 2]) /\ IsDigit(t[m + 3])
        /\ t[m + 4] = "."
        /\ IsDigit(t[m + 5]) /\ IsDigit(t[m + 6]) /\ IsDigit(t[m + 7])

RECURSIVE DigitsValue(_)
\* int() of a run of digits
DigitsValue(s) ==
    IF s = <<>> THEN 0
    ELSE 10 * DigitsValue(SubSeq(s, 1, Len(s) - 1)) + DigitVal(s[Len(s)])

AllDigits(s) == \A i \in 1..Len(s) : IsDigit(s[i])
IndexOf(s, c) == IF \E i \in 1..Len(s) : s[i] = c
                 THEN CHOOSE i \in 1..Len(s) : s[i] = c /\ \A j \in 1..(i - 1) : s[j] # c
                 ELSE 0

\* float() of a plain decimal text "ddd" or "ddd.ddd", in tenths of a second;
\* None stands for ValueError.  Only the first fractional digit counts: the
\* tokens of the model have no finer part.
ParseFloat(t) ==
    LET dot == IndexOf(t, ".")
        ip  == IF dot = 0 THEN t ELSE SubSeq(t, 1, dot - 1)
        fp  == IF dot = 0 THEN <<>> ELSE SubSeq(t, dot + 1, Len(t))
    IN  IF t = <<>> \/ ~AllDigits(ip) \/ ~AllDigits(fp) \/ (ip = <<>> /\ fp = <<>>)
        THEN None
        ELSE Some(10 * DigitsValue(ip) + (IF fp = <<>> THEN 0 ELSE DigitVal(fp[1])))

\* _parse_time_to_seconds: minutes * 60 + seconds, or the bare number; 0.0 on
\* ValueError (also raised by the unpacking when the text holds two colons).
ParseTimeToSeconds(time_str) ==
    LET t     == Strip(time_str)
        colon == IndexOf(t, ":")
    IN  IF colon # 0
        THEN LET mins == Strip(SubSeq(t, 1, colon - 1))
                 secs == Strip(SubSeq(t, colon + 1, Len(t)))
             IN  IF IndexOf(secs, ":") # 0
                    \/ IsNull(ParseFloat(mins)) \/ IsNull(ParseFloat(secs))
                 THEN 0
                 ELSE Val(ParseFloat(mins)) * 60 + Val(ParseFloat(secs))
        ELSE IF IsNull(ParseFloat(t)) THEN 0 ELSE Val(ParseFloat(t))

----------------------------------------------------------------------------
(* DataParser._clean_lap_time_data *)

KW_str == <<"s","t","r">>
KW_sector == <<"s","e","c","t","o","r">>
KW_turn == <<"t","u","r","n">>
SectorKeywords == {KW_str, KW_sector, KW_turn}

TXT_sector_ == <<"s","e","c","t","o","r","_">>
TXT__time == <<"_","t","i","m","e">>
TXT_lap_number == <<"l","a","p","_","n","u","m","b","e","r">>
TXT_session_id == <<"s","e","s","s","i","o","n","_","i","d">>
TXT_total_lap_time == <<"t","o","t","a","l","_","l","a","p","_","t","i","m","e">>

\* str(n) for 0 <= n <= 99
IntText(n) == IF n < 10 THEN <<DigitChar(n)>> ELSE <<DigitChar(n \div 10), DigitChar(n % 10)>>

\* pd.DataFrame(): no columns, no rows
EmptyFrame == [columns |-> <<>>, rows |-> <<>>]

\* Number of columns of the raw frame (every row has the same width).
NCols(df) == IF df.rows = <<>> THEN 0 ELSE 1 + Len(df.rows[1].cells)

\* Lines 72-73: the first cell is present and holds a sector keyword.
IsSectorHeaderRow(row) ==
    /\ NotNull(row.first)
    /\ \E keyword \in SectorKeywords : Contains(Lower(Val(row.first)), keyword)

\* A variant of SectorRowIdx that starts at the top row of a table with a match
SectorRowIdx_FromTop(df) ==
    IF \E i \in 1..Len(df.rows) : IsSectorHeaderRow(df.rows[i]) THEN 1 ELSE 0

\* Lines 69-75: the first row whose first cell holds a sector keyword; 0 if none.
SectorRowIdx(df) ==
    IF \E i \in 1..Len(df.rows) : IsSectorHeaderRow(df.rows[i])
    THEN CHOOSE i \in 1..Len(df.rows) :
            /\ IsSectorHeaderRow(df.rows[i])
            /\ \A j \in 1..(i - 1) : ~IsSectorHeaderRow(df.rows[j])
    ELSE 0

\* Lines 91-98: one sector row's lap times, the last 3 columns excluded.
LapTimesOfRow(df, row) ==
    [c \in 1..Max2(0, NCols(df) - 4) |->
        IF NotNull(row.cells[c]) /\ IsValidTime(Val(row.cells[c]))
        THEN Some(ParseTimeToSeconds(Val(row.cells[c])))
        ELSE None]

\* Lines 86-100: the rows from the sector row on whose first cell is non-blank.
IsNamedRow(row) == NotNull(row.first) /\ Strip(Val(row.first)) # <<>>
SectorRows(df) ==
    LET start == SectorRowIdx(df)
        keep  == [i \in 1..Len(df.rows) |-> i >= start /\ IsNamedRow(df.rows[i])]
    IN  SelectIdx(df.rows, keep, 1)

\* Line 116: f'sector_{sector_idx + 1}_{sector_name}'
SectorColumnName(k, row) == TXT_sector_ \o IntText(k) \o <<"_">> \o Strip(Val(row.first))

\* A variant of TotalLapTime that adds up whatever sectors are present
TotalLapTime_SkipMissing(sector_times) ==
    Some(SumSeq([i \in 1..Len(sector_times) |->
                    IF NotNull(sector_times[i]) THEN Val(sector_times[i]) ELSE 0]))

\* Lines 121-126: the sum of the sectors when every one is present, else None.
TotalLapTime(sector_times) ==
    IF \A i \in 1..Len(sector_times) : NotNull(sector_times[i])
    THEN Some(SumSeq([i \in 1..Len(sector_times) |-> Val(sector_times[i])]))
    ELSE None

CleanLapTimeData(df) ==
    IF SectorRowIdx(df) = 0 THEN EmptyFrame
    ELSE
    LET srows    == SectorRows(df)
        nsec     == Len(srows)
        times    == [k \in 1..nsec |-> LapTimesOfRow(df, srows[k])]
        max_laps == Max2(0, NCols(df) - 4)
        names    == [k \in 1..nsec |-> SectorColumnName(k, srows[k])]
        lapRow(n) ==
            LET st == [k \in 1..nsec |-> times[k][n]]
            IN  [lap_number     |-> n,
                 sectors        |-> [c \in {names[k] : k \in 1..nsec} |->
                                        st[CHOOSE k \in 1..nsec : names[k] = c]],
                 total_lap_time |-> TotalLapTime(st)]
    IN  IF nsec = 0 \/ max_laps = 0 THEN EmptyFrame
        ELSE [columns |-> <<TXT_lap_number, TXT_session_id>> \o names \o <<TXT_total_lap_time>>,
              rows    |-> [n \in 1..max_laps |-> lapRow(n)]]

----------------------------------------------------------------------------
(* Numbers of the analysis: exact fractions, NaN *)

Frac(n, d) == [num |-> n, den |-> d]
FracLe(a, b) == a.num * b.den <= b.num * a.den       \* denominators are positive
FracEq(a, b) == a.num * b.den = b.num * a.den
FracAdd(a, b) == Frac(a.num * b.den + b.num * a.den, a.den * b.den)
FracSub(a, b) == Frac(a.num * b.den - b.num * a.den, a.den * b.den)

\* Series.mean() / np.mean of a non-empty sequence of integers
Mean(s) == Frac(SumSeq(s), Len(s))

\* A standard deviation, or a ratio of one to a mean, held by its square.
NaN == [nan |-> TRUE, num |-> 0, den |-> 1]
Sq(n, d) == [nan |-> FALSE, num |-> n, den |-> d]
Zero == Sq(0, 1)
IsNaN(x) == x.nan
IsZero(x) == ~x.nan /\ x.num = 0

\* Series.std(): the sample standard deviation (ddof = 1).  pandas computes
\* sum((mean - x)^2) / (n - 1), which is (n*sum(x^2) - sum(x)^2) / (n*(n - 1));
\* with one value the division is 0/0 and the result is NaN.
Std(s) ==
    LET n == Len(s)
    IN  IF n <= 1 THEN NaN
        ELSE Sq(n * SumSq(s) - SumSeq(s) * SumSeq(s), n * (n - 1))

\* std / mean for mean > 0: NaN stays NaN; the square of the quotient.
StdOverMean(std, mean) ==
    IF IsNaN(std) THEN NaN
    ELSE Sq(std.num * mean.den * mean.den, std.den * mean.num * mean.num)

----------------------------------------------------------------------------
(* LapAnalyzer *)

\* Lines 42-43: the columns that start with 'sector_' and do not end with '_time'.
IsSectorColumn(col) == StartsWith(col, TXT_sector_) /\ ~EndsWith(col, TXT__time)
SectorColumnsOf(frame) == SelectSeq(frame.columns, IsSectorColumn)

HasColumn(frame, col) == \E i \in 1..Len(frame.columns) : frame.columns[i] = col

\* lap_data['total_lap_time'] of a frame whose totals are all present
Totals(rows) == [i \in 1..Len(rows) |-> Val(rows[i].total_lap_time)]

\* Line 51: dropna(subset=['total_lap_time'])
DropNullTotals(rows) ==
    SelectIdx(rows, [i \in 1..Len(rows) |-> NotNull(rows[i].total_lap_time)], 1)

\* The k-th smallest element of a non-empty sequence of integers.
KthSmallest(s, k) ==
    CHOOSE v \in {s[i] : i \in 1..Len(s)} :
        /\ Cardinality({i \in 1..Len(s) : s[i] < v}) < k
        /\ Cardinality({i \in 1..Len(s) : s[i] <= v}) >= k

\* Series.median(): the middle value, or the mean of the two middle values.
Median(s) ==
    LET n == Len(s)
    IN  IF n % 2 = 1 THEN Frac(KthSmallest(s, (n + 1) \div 2), 1)
        ELSE Frac(KthSmallest(s, n \div 2) + KthSmallest(s, n \div 2 + 1), 2)

\* A variant of InOutlierBounds with strict comparisons
InOutlierBounds_Strict(t, median_time) ==
    /\ median_time.num < 2 * median_time.den * t
    /\ t * median_time.den < 3 * median_time.num

\* Lines 58-63: lower_bound <= t <= upper_bound with 0.5 and 3.0 times the median
InOutlierBounds(t, median_time) ==
    /\ FracLe(Frac(median_time.num, 2 * median_time.den), Frac(t, 1))
    /\ FracLe(Frac(t, 1), Frac(3 * median_time.num, median_time.den))

\* Lines 54-69: the mask of the laps kept; all of them when at most 3 remain.
OutlierMask(rows) ==
    IF Len(rows) > 3
    THEN [i \in 1..Len(rows) |->
            InOutlierBounds(Val(rows[i].total_lap_time), Median(Totals(rows)))]
    ELSE [i \in 1..Len(rows) |-> TRUE]

\* A variant of CleanLapData whose reset_index also renumbers lap_number
CleanLapData_Renumbered(rows) ==
    LET valid == DropNullTotals(rows)
        kept  == SelectIdx(valid, OutlierMask(valid), 1)
    IN  [i \in 1..Len(kept) |-> [kept[i] EXCEPT !.lap_number = i]]

\* _clean_lap_data: the rows kept, in order (reset_index renumbers the index only)
CleanLapData(rows) ==
    LET valid == DropNullTotals(rows)
    IN  SelectIdx(valid, OutlierMask(valid), 1)

OutliersRemoved(rows) == Len(DropNullTotals(rows)) - Len(CleanLapData(rows))

\* lap_data[sector_col].dropna() over the analyzer's laps
SectorTimes(rows, col) ==
    LET present == SelectIdx(rows, [i \in 1..Len(rows) |-> NotNull(rows[i].sectors[col])], 1)
    IN  [i \in 1..Len(present) |-> Val(present[i].sectors[col])]

RECURSIVE SumSectorMins(_, _)
\* Lines 127-131: the sum of min() over the sector columns that have a value
SumSectorMins(rows, cols) ==
    IF cols = <<>> THEN 0
    ELSE (IF SectorTimes(rows, cols[1]) # <<>> THEN MinSeq(SectorTimes(rows, cols[1])) ELSE 0)
         + SumSectorMins(rows, Tail(cols))

RECURSIVE MaxSeq(_)
MaxSeq(s) == IF Len(s) = 1 THEN s[1] ELSE Max2(s[1], MaxSeq(Tail(s)))

RECURSIVE CalculateTheoreticalBest_SlowestSectors(_, _)
\* A variant of CalculateTheoreticalBest that takes max() where the code takes min()
CalculateTheoreticalBest_SlowestSectors(rows, cols) ==
    IF cols = <<>> THEN 0
    ELSE (IF SectorTimes(rows, cols[1]) # <<>> THEN MaxSeq(SectorTimes(rows, cols[1])) ELSE 0)
         + CalculateTheoreticalBest_SlowestSectors(rows, Tail(cols))

\* _calculate_theoretical_best
CalculateTheoreticalBest(rows, cols) ==
    IF cols = <<>> THEN 0
    ELSE IF \E i \in 1..Len(cols) : SectorTimes(rows, cols[i]) # <<>>
         THEN SumSectorMins(rows, cols)
         ELSE 0

\* A variant of CalculatePerformanceWindow that reports the fraction, not the percentage
CalculatePerformanceWindow_Fraction(lap_times, best_lap) ==
    IF best_lap <= 0 THEN Frac(0, 1)
    ELSE Frac(Cardinality({i \in 1..Len(lap_times) : 100 * lap_times[i] <= 101 * best_lap}),
              Len(lap_times))

\* _calculate_performance_window: the percentage of laps within 1% of the best
CalculatePerformanceWindow(lap_times, best_lap) ==
    IF best_lap <= 0 THEN Frac(0, 1)
    ELSE Frac(100 * Cardinality({i \in 1..Len(lap_times) : 100 * lap_times[i] <= 101 * best_lap}),
              Len(lap_times))

RECURSIVE ReplaceAll(_, _, _)
\* str.replace(old, new), every occurrence, left to right
ReplaceAll(s, old, new) ==
    IF Len(s) < Len(old) THEN s
    ELSE IF StartsWith(s, old)
         THEN new \o ReplaceAll(SubSeq(s, Len(old) + 1, Len(s)), old, new)
         ELSE <<s[1]>> \o ReplaceAll(Tail(s), old, new)

\* Line 143: sector_col.replace('sector_', '').replace('_', ' ')
SectorDisplayName(col) == ReplaceAll(ReplaceAll(col, TXT_sector_, <<>>), <<"_">>, <<" ">>)

\* _calculate_sector_improvement: mean(first 3) - mean(last 3) from 6 values on
CalculateSectorImprovement(sector_times) ==
    IF Len(sector_times) < 6 THEN Frac(0, 1)
    ELSE FracSub(Mean(SubSeq(sector_times, 1, 3)),
                 Mean(SubSeq(sector_times, Len(sector_times) - 2, Len(sector_times))))

\* _analyze_sectors: one entry per sector column that has a value
AnalyzeSectors(rows, cols) ==
    LET withData == {i \in 1..Len(cols) : SectorTimes(rows, cols[i]) # <<>>}
        colOf(name) == cols[CHOOSE i \in withData : SectorDisplayName(cols[i]) = name]
    IN  [name \in {SectorDisplayName(cols[i]) : i \in withData} |->
            LET st == SectorTimes(rows, colOf(name))
            IN  [best_time    |-> MinSeq(st),
                 average_time |-> Mean(st),
                 std_dev      |-> Std(st),
                 consistency  |-> IF SumSeq(st) > 0 THEN StdOverMean(Std(st), Mean(st)) ELSE Zero,
                 improvement  |-> CalculateSectorImprovement(st)]]

\* _analyze_lap_progression
AnalyzeLapProgression(lap_times) ==
    IF Len(lap_times) < 2 THEN <<>>
    ELSE
    LET window_size == Min2(3, Len(lap_times) \div 2)
        \* i ranges over range(window_size, len(lap_times)), 0-based
        cur(i)  == Slice(lap_times, i - window_size, i)
        prev(i) == Slice(lap_times, Max2(0, i - 2 * window_size), i - window_size)
        idx     == [k \in 1..(Len(lap_times) - window_size) |-> window_size + k - 1]
        kept    == SelectIdx(idx, [k \in 1..Len(idx) |-> prev(idx[k]) # <<>>], 1)
    IN  [k \in 1..Len(kept) |-> FracSub(Mean(prev(kept[k])), Mean(cur(kept[k])))]

RECURSIVE FracSum(_)
FracSum(s) == IF s = <<>> THEN Frac(0, 1) ELSE FracAdd(s[1], FracSum(Tail(s)))

\* Line 214: np.mean(result.lap_progression) if result.lap_progression else 0
ProgressionTrend(progression) ==
    IF progression = <<>> THEN Frac(0, 1)
    ELSE Frac(FracSum(progression).num, FracSum(progression).den * Len(progression))

\* _empty_result, as get_lap_summary reports it
EmptyResult ==
    [total_laps               |-> 0,
     valid_laps               |-> 0,
     best_lap_time            |-> 0,
     average_lap_time         |-> Frac(0, 1),
     lap_time_std             |-> Zero,
     consistency_index        |-> Zero,
     theoretical_best         |-> 0,
     time_lost_to_theoretical |-> 0,
     performance_window       |-> Frac(0, 1),
     sector_analysis          |-> <<>>,
     lap_progression          |-> <<>>,
     lap_progression_trend    |-> Frac(0, 1)]

\* analyze_laps and the summary get_lap_summary builds from it
AnalyzeLaps(rows, cols) ==
    IF rows = <<>> THEN EmptyResult
    ELSE
    LET lap_times         == Totals(rows)
        best_lap          == MinSeq(lap_times)
        avg_lap           == Mean(lap_times)
        lap_std           == Std(lap_times)
        consistency_index == IF avg_lap.num > 0 THEN StdOverMean(lap_std, avg_lap) ELSE Zero
        theoretical_best  == CalculateTheoreticalBest(rows, cols)
        time_lost         == IF theoretical_best > 0 THEN best_lap - theoretical_best ELSE 0
        lap_progression   == AnalyzeLapProgression(lap_times)
    IN  [total_laps               |-> Len(rows),
         valid_laps               |-> Len(lap_times),
         best_lap_time            |-> best_lap,
         average_lap_time         |-> avg_lap,
         lap_time_std             |-> lap_std,
         consistency_index        |-> consistency_index,
         theoretical_best         |-> theoretical_best,
         time_lost_to_theoretical |-> time_lost,
         performance_window       |-> CalculatePerformanceWindow(lap_times, best_lap),
         sector_analysis          |-> AnalyzeSectors(rows, cols),
         lap_progression          |-> lap_progression,
         lap_progression_trend    |-> ProgressionTrend(lap_progression)]

----------------------------------------------------------------------------
(* Raw lap tables the model is run on *)

\* The token "m:ss.t00"
TimeText(min, sec, tenth) ==
    IntText(min) \o <<":", DigitChar(sec \div 10), DigitChar(sec % 10), ".",
                      DigitChar(tenth), "0", "0">>

\* A lap cell: missing, or a time of 1.0, 2.0 or 6.0 seconds.  With a median
\* of 2.0 the other two lie exactly on the outlier bounds.
CellAlphabet == {None, Some(TimeText(0, 1, 0)), Some(TimeText(0, 2, 0)), Some(TimeText(0, 6, 0))}

\* The three trailing columns (best / average / theoretical) of every row
TrailingCells == <<Some(TimeText(0, 0, 5)), Some(TimeText(0, 0, 5)), Some(TimeText(0, 0, 5))>>

N_Str1 == <<"S","t","r"," ","1">>
N_Str1Padded == <<" ","S","t","r"," ","1"," ">>
N_Turn2 == <<"T","u","r","n"," ","2">>
N_Sector3 == <<"S","E","C","T","O","R"," ","3">>
N_PitTime == <<"P","i","t","_","t","i","m","e">>
N_Venue == <<"V","e","n","u","e">>
N_Blank == <<" ">>

\* A layout is the first column of a table; `varying` are the rows whose lap
\* cells range over CellAlphabet, the other rows hold a fixed valid time.
Layouts ==
    { [firsts |-> <<Some(N_Str1)>>, varying |-> {1}],
      [firsts |-> <<Some(N_Str1), Some(N_Turn2)>>, varying |-> {1, 2}],
      [firsts |-> <<Some(N_Str1), Some(N_Turn2), Some(N_Sector3)>>, varying |-> {1, 2, 3}],
      [firsts |-> <<Some(N_Venue), Some(N_Str1Padded), None, Some(N_Blank), Some(N_PitTime)>>,
       varying |-> {2, 5}],
      [firsts |-> <<Some(N_Venue), None>>, varying |-> {}] }

MkTable(firsts, lapCells) ==
    [rows |-> [i \in 1..Len(firsts) |->
                 [first |-> firsts[i], cells |-> lapCells[i] \o TrailingCells]]]

\* The table of a layout with no lap column yet
BareTable(layout) == MkTable(layout.firsts, [i \in 1..Len(layout.firsts) |-> <<>>])

\* Frames too narrow to hold a lap column (4 columns or fewer), and no rows at all
NarrowTables ==
    { [rows |-> <<[first |-> Some(N_Str1), cells |-> SubSeq(TrailingCells, 1, k)]>>] : k \in 0..2 }
    \cup { [rows |-> <<>>] }

\* One-sector table of the given lap times (tokens), and a two-sector table
OneSector(tokens) == MkTable(<<Some(N_Str1)>>, <<[i \in 1..Len(tokens) |-> Some(tokens[i])]>>)
TwoSectors(a, b) ==
    MkTable(<<Some(N_Str1), Some(N_Turn2)>>,
            <<[i \in 1..Len(a) |-> Some(a[i])], [i \in 1..Len(b) |-> Some(b[i])]>>)

\* laps [90.0, 91.0, 89.5, 95.0, 90.2]
FiveLaps == <<TimeText(1, 30, 0), TimeText(1, 31, 0), TimeText(1, 29, 5),
              TimeText(1, 35, 0), TimeText(1, 30, 2)>>
ScenarioFiveLaps == OneSector(FiveLaps)
\* the same with an injected lap of 902.0
ScenarioInjected == OneSector(FiveLaps \o <<TimeText(15, 2, 0)>>)
\* sectors {A: [30, 31, 29], B: [60, 61, 59]}
ScenarioSectors ==
    TwoSectors(<<TimeText(0, 30, 0), TimeText(0, 31, 0), TimeText(0, 29, 0)>>,
               <<TimeText(1, 0, 0), TimeText(1, 1, 0), TimeText(0, 59, 0)>>)
\* laps of 0.0 seconds, and a session with a lap 0.5% and a lap 1.5% off the best
ScenarioZeroLaps == OneSector(<<TimeText(0, 0, 0), TimeText(0, 0, 0)>>)
ScenarioWindow == OneSector(<<TimeText(0, 20, 0), TimeText(0, 20, 1), TimeText(0, 20, 3)>>)

\* tokens of other shapes: a bare decimal, a bare integer, minutes without
\* milliseconds, a word, an empty text, and a padded time
TOK_90_5 == <<"9","0",".","5">>
TOK_90 == <<"9","0">>
TOK_1_30 == <<"1",":","3","0">>
TOK_DNF == <<"D","N","F">>
TOK_Empty == <<>>
TOK_Padded == <<" ">> \o TimeText(1, 30, 0) \o <<" ">>
ScenarioTokens ==
    TwoSectors(<<TOK_90_5, TOK_90, TimeText(1, 30, 0), TOK_1_30, TOK_DNF, TOK_Empty, TOK_Padded>>,
               <<TimeText(0, 1, 0), TimeText(0, 1, 0), TimeText(0, 1, 0), TimeText(0, 1, 0),
                 TimeText(0, 1, 0), TimeText(0, 1, 0), TimeText(0, 1, 0)>>)

Scenarios == {ScenarioFiveLaps, ScenarioInjected, ScenarioSectors, ScenarioZeroLaps,
              ScenarioWindow, ScenarioTokens}

\* The tables a run starts from; ReadLapColumn widens the bare ones.
StartTables == {BareTable(l) : l \in Layouts} \cup NarrowTables \cup Scenarios

\* The table with one more lap column, `col` giving the cell of each varying
\* row; the other rows get a valid time, the trailing columns stay last.
WithLapColumn(df, layout, col) ==
    [rows |-> [i \in 1..Len(df.rows) |->
        [first |-> df.rows[i].first,
         cells |-> SubSeq(df.rows[i].cells, 1, Len(df.rows[i].cells) - 3)
                   \o <<IF i \in layout.varying THEN col[i] ELSE Some(TimeText(0, 1, 0))>>
                   \o TrailingCells]]]

----------------------------------------------------------------------------
(* The lap pipeline: parse, construct the analyzer, summarise *)

LapInit ==
    /\ pc = "raw"
    /\ raw \in StartTables
    /\ lapTable = EmptyFrame
    /\ sector_columns = <<>>
    /\ lap_data = <<>>
    /\ removed = 0
    /\ result = EmptyResult
    /\ exc = "none"

\* The reader delivers one more lap column of a table that follows a layout.
ReadLapColumn ==
    /\ pc = "raw"
    /\ \E layout \in Layouts :
         /\ Len(raw.rows) = Len(layout.firsts)
         /\ \A i \in 1..Len(raw.rows) : raw.rows[i].first = layout.firsts[i]
         /\ layout.varying # {}
         /\ NCols(raw) >= 4
         /\ (NCols(raw) - 3) * Cardinality(layout.varying) <= MaxCells
         /\ raw \notin Scenarios
         /\ \E col \in [layout.varying -> CellAlphabet] :
              raw' = WithLapColumn(raw, layout, col)
    /\ UNCHANGED <<pc, lapTable, sector_columns, lap_data, removed, result, exc>>
    /\ UNCHANGED <<telVars, gradeVars, kpiVars, vehVars, batchVars, ingestVars>>

\* DataParser._clean_lap_time_data on the frame read from parquet
ParseLapTimes ==
    /\ pc = "raw"
    /\ lapTable' = CleanLapTimeData(raw)
    /\ pc' = "parsed"
    /\ UNCHANGED <<raw, sector_columns, lap_data, removed, result, exc>>
    /\ UNCHANGED <<telVars, gradeVars, kpiVars, vehVars, batchVars, ingestVars>>

\* LapAnalyzer.__init__: copy, sector columns, _clean_lap_data.  dropna raises
\* KeyError when the frame has no 'total_lap_time' column.
NewLapAnalyzer ==
    /\ pc = "parsed"
    /\ sector_columns' = SectorColumnsOf(lapTable)
    /\ IF HasColumn(lapTable, TXT_total_lap_time)
       THEN /\ lap_data' = CleanLapData(lapTable.rows)
            /\ removed' = OutliersRemoved(lapTable.rows)
            /\ pc' = "ready"
            /\ exc' = exc
       ELSE /\ lap_data' = lapTable.rows
            /\ removed' = removed
            /\ pc' = "failed"
            /\ exc' = "KeyError"
    /\ UNCHANGED <<raw, lapTable, result>>
    /\ UNCHANGED <<telVars, gradeVars, kpiVars, vehVars, batchVars, ingestVars>>

\* LapAnalyzer.get_lap_summary (which calls analyze_laps)
GetLapSummary ==
    /\ pc = "ready"
    /\ result' = AnalyzeLaps(lap_data, sector_columns)
    /\ pc' = "analyzed"
    /\ UNCHANGED <<raw, lapTable, sector_columns, lap_data, removed, exc>>
    /\ UNCHANGED <<telVars, gradeVars, kpiVars, vehVars, batchVars, ingestVars>>

----------------------------------------------------------------------------
(* TelemetryAnalyzer.  A telemetry frame maps each column it has to its    *)
(* samples, in hundredths (0.10 is 10); a sample may be missing (NaN).     *)

RequiredColumns == {"Time", "Throttle", "Brake", "SteeringAngle"}

\* _validate_columns: the required columns a warning is printed for
ValidateColumns(df) == {col \in RequiredColumns : col \notin DOMAIN df}

\* Series.diff().dropna(): the differences of adjacent present samples
DiffDropNa(series) ==
    LET ok == [i \in 1..Len(series) |->
                 i > 1 /\ NotNull(series[i]) /\ NotNull(series[i - 1])]
        d  == [i \in 1..Len(series) |->
                 IF ok[i] THEN Val(series[i]) - Val(series[i - 1]) ELSE 0]
    IN  SelectIdx(d, ok, 1)

\* Lines 44-45: diff.std() if not diff.empty else 0.0
Smoothness(series) ==
    IF DiffDropNa(series) = <<>> THEN Zero ELSE Std(DiffDropNa(series))

\* analyze_input_smoothness
AnalyzeInputSmoothness(df) ==
    LET metric == [c \in {"Throttle", "Brake", "SteeringAngle"} |->
                     CASE c = "Throttle" -> "throttle_smoothness"
                       [] c = "Brake" -> "brake_smoothness"
                       [] c = "SteeringAngle" -> "steering_smoothness"]
        present == {c \in DOMAIN metric : c \in DOMAIN df}
    IN  [m \in {metric[c] : c \in present} |->
            Smoothness(df[CHOOSE c \in present : metric[c] = m])]

\* The present samples of a series that exceed a threshold, in order
Above(series, threshold) ==
    LET keep == [i \in 1..Len(series) |-> NotNull(series[i]) /\ Val(series[i]) > threshold]
        kept == SelectIdx(series, keep, 1)
    IN  [i \in 1..Len(kept) |-> Val(kept[i])]

Abs(x) == IF x < 0 THEN 0 - x ELSE x

\* A variant of AnalyzeBrakingPoints that reports zeros when there is no Brake column
AnalyzeBrakingPoints_ZeroDefault(df) ==
    LET braking == IF "Brake" \in DOMAIN df THEN Above(df["Brake"], 10) ELSE <<>>
    IN  [m \in {"avg_brake_application", "num_braking_events"} |->
            IF braking = <<>> THEN Frac(0, 1)
            ELSE IF m = "avg_brake_application" THEN Mean(braking)
            ELSE Frac(Cardinality({i \in 2..Len(braking) :
                          Abs(braking[i] - braking[i - 1]) > 10}), 1)]

\* A variant of AnalyzeBrakingPoints that counts the contiguous braking zones
AnalyzeBrakingPoints_Zones(df) ==
    IF "Brake" \notin DOMAIN df THEN <<>>
    ELSE LET brake   == df["Brake"]
             on(i)   == NotNull(brake[i]) /\ Val(brake[i]) > 10
             braking == Above(brake, 10)
         IN  IF braking # <<>>
             THEN [m \in {"avg_brake_application", "num_braking_events"} |->
                     IF m = "avg_brake_application" THEN Mean(braking)
                     ELSE Frac(Cardinality({i \in 1..Len(brake) :
                                   on(i) /\ (i = 1 \/ ~on(i - 1))}), 1)]
             ELSE [m \in {"avg_brake_application", "num_braking_events"} |-> Frac(0, 1)]

\* analyze_braking_points (braking_threshold = 0.1)
AnalyzeBrakingPoints(df) ==
    IF "Brake" \notin DOMAIN df THEN <<>>
    ELSE LET braking == Above(df["Brake"], 10)
         IN  IF braking # <<>>
             THEN [m \in {"avg_brake_application", "num_braking_events"} |->
                     IF m = "avg_brake_application" THEN Mean(braking)
                     ELSE Frac(Cardinality({i \in 2..Len(braking) :
                                   Abs(braking[i] - braking[i - 1]) > 10}), 1)]
             ELSE [m \in {"avg_brake_application", "num_braking_events"} |-> Frac(0, 1)]

\* analyze_throttle_application (throttle above 0.05)
AnalyzeThrottleApplication(df) ==
    IF "Throttle" \notin DOMAIN df THEN <<>>
    ELSE LET applied == Above(df["Throttle"], 5)
         IN  IF applied # <<>>
             THEN [m \in {"avg_throttle_application", "percent_throttle_on"} |->
                     IF m = "avg_throttle_application" THEN Mean(applied)
                     ELSE Frac(100 * Len(applied), Len(df["Throttle"]))]
             ELSE [m \in {"avg_throttle_application", "percent_throttle_on"} |-> Frac(0, 1)]

\* get_advanced_telemetry_kpis: dict.update of the three maps in turn
GetAdvancedTelemetryKpis(df) ==
    AnalyzeThrottleApplication(df) @@ AnalyzeBrakingPoints(df) @@ AnalyzeInputSmoothness(df)

\* Telemetry frames the model is run on: any subset of the required columns, all
\* columns of one length; Time counts the rows.
ChannelAlphabet(col) ==
    CASE col = "Throttle" -> {Some(0), Some(50)}
      [] col = "Brake" -> {Some(0), Some(30), Some(50)}
      [] col = "SteeringAngle" -> {Some(0), Some(50)}
      [] col = "Time" -> {}

\* A throttle trace with a sample that failed numeric coercion
ScenarioCoerced == [c \in {"Time", "Throttle"} |->
                      IF c = "Time" THEN <<Some(1), Some(2), Some(3)>>
                      ELSE <<Some(50), None, Some(50)>>]

\* The frames a run starts from: any subset of the required columns, no rows yet
\* (ReadSample appends rows), and the coerced trace.
StartFrames ==
    {[c \in cols |-> <<>>] : cols \in SUBSET RequiredColumns} \cup {ScenarioCoerced}

TelemetryInit ==
    /\ tpc = "new"
    /\ telemetry \in StartFrames
    /\ warned = {}
    /\ kpis = <<>>

\* The reader delivers one more row: a sample for every column of the frame.
ReadSample ==
    /\ tpc = "new"
    /\ telemetry # ScenarioCoerced
    /\ DOMAIN telemetry # {}
    /\ \A c \in DOMAIN telemetry : Len(telemetry[c]) < MaxSamples
    /\ \E row \in [DOMAIN telemetry \ {"Time"} -> {Some(0), Some(30), Some(50)}] :
         /\ \A c \in DOMAIN row : row[c] \in ChannelAlphabet(c)
         /\ telemetry' = [c \in DOMAIN telemetry |->
                Append(telemetry[c],
                       IF c = "Time" THEN Some(Len(telemetry[c]) + 1) ELSE row[c])]
    /\ UNCHANGED <<tpc, warned, kpis>>
    /\ UNCHANGED <<lapVars, gradeVars, kpiVars, vehVars, batchVars, ingestVars>>

\* TelemetryAnalyzer.__init__: keeps the frame and validates its columns
NewTelemetryAnalyzer ==
    /\ tpc = "new"
    /\ warned' = ValidateColumns(telemetry)
    /\ tpc' = "ready"
    /\ UNCHANGED <<telemetry, kpis>>
    /\ UNCHANGED <<lapVars, gradeVars, kpiVars, vehVars, batchVars, ingestVars>>

\* TelemetryAnalyzer.get_advanced_telemetry_kpis
AdvancedTelemetryKpis ==
    /\ tpc = "ready"
    /\ kpis' = GetAdvancedTelemetryKpis(telemetry)
    /\ tpc' = "done"
    /\ UNCHANGED <<telemetry, warned>>
    /\ UNCHANGED <<lapVars, gradeVars, kpiVars, vehVars, batchVars, ingestVars>>

----------------------------------------------------------------------------
(* KPICalculator: the grade bands of _calculate_performance_summary *)

Real(n, d) == [nan |-> FALSE, num |-> n, den |-> d]
\* x >= k, false for NaN
Ge(x, k) == ~x.nan /\ x.num >= k * x.den

\* x > k, false for NaN
Gt(x, k) == ~x.nan /\ x.num > k * x.den

\* A variant of GradeOf whose bands exclude their lower bound
GradeOf_StrictBands(overall_score) ==
    IF Gt(overall_score, 90) THEN "A+"
    ELSE IF Gt(overall_score, 85) THEN "A"
    ELSE IF Gt(overall_score, 80) THEN "A-"
    ELSE IF Gt(overall_score, 75) THEN "B+"
    ELSE IF Gt(overall_score, 70) THEN "B"
    ELSE IF Gt(overall_score, 65) THEN "B-"
    ELSE IF Gt(overall_score, 60) THEN "C+"
    ELSE IF Gt(overall_score, 55) THEN "C"
    ELSE IF Gt(overall_score, 50) THEN "C-"
    ELSE "D"

\* Lines 256-276
GradeOf(overall_score) ==
    IF Ge(overall_score, 90) THEN "A+"
    ELSE IF Ge(overall_score, 85) THEN "A"
    ELSE IF Ge(overall_score, 80) THEN "A-"
    ELSE IF Ge(overall_score, 75) THEN "B+"
    ELSE IF Ge(overall_score, 70) THEN "B"
    ELSE IF Ge(overall_score, 65) THEN "B-"
    ELSE IF Ge(overall_score, 60) THEN "C+"
    ELSE IF Ge(overall_score, 55) THEN "C"
    ELSE IF Ge(overall_score, 50) THEN "C-"
    ELSE "D"

Scores == {Real(n, 1) : n \in 0..MaxScore} \cup {NaN}

GradeInit ==
    /\ gpc = "scored"
    /\ scores \in [1..2 -> Scores]
    /\ grades = <<>>

\* The grade of each score
AssignGrades ==
    /\ gpc = "scored"
    /\ grades' = [i \in 1..2 |-> GradeOf(scores[i])]
    /\ gpc' = "graded"
    /\ UNCHANGED scores
    /\ UNCHANGED <<lapVars, telVars, kpiVars, vehVars, batchVars, ingestVars>>

----------------------------------------------------------------------------
(* Numbers of the KPI report: exact fractions in lowest terms, NaN and the  *)
(* two infinities (denominator 0).  Python's comparisons with NaN are false. *)

RECURSIVE Gcd(_, _)
Gcd(a, b) == IF b = 0 THEN a ELSE Gcd(b, a % b)

\* The fraction n/d (d > 0) in lowest terms
Norm(n, d) == Real(n \div Gcd(Abs(n), d), d \div Gcd(Abs(n), d))

Inf == Real(1, 0)
NegInf == Real(-1, 0)
IsFinite(x) == ~x.nan /\ x.den # 0

RLt(a, b) ==
    /\ ~a.nan /\ ~b.nan
    /\ IF a.den = 0 /\ b.den = 0 THEN a.num < b.num
       ELSE a.num * b.den < b.num * a.den
RLe(a, b) ==
    /\ ~a.nan /\ ~b.nan
    /\ IF a.den = 0 /\ b.den = 0 THEN a.num <= b.num
       ELSE a.num * b.den <= b.num * a.den

RNeg(a) == IF a.nan THEN NaN ELSE Real(0 - a.num, a.den)
RAdd(a, b) ==
    IF a.nan \/ b.nan THEN NaN
    ELSE IF a.den = 0 /\ b.den = 0 THEN (IF a.num = b.num THEN a ELSE NaN)
    ELSE IF a.den = 0 THEN a
    ELSE IF b.den = 0 THEN b
    ELSE Norm(a.num * b.den + b.num * a.den, a.den * b.den)
RSub(a, b) == RAdd(a, RNeg(b))

Sign(n) == IF n > 0 THEN 1 ELSE IF n < 0 THEN -1 ELSE 0
RMul(a, b) ==
    IF a.nan \/ b.nan THEN NaN
    ELSE IF a.den = 0 \/ b.den = 0
         THEN (IF a.num = 0 \/ b.num = 0 THEN NaN ELSE Real(Sign(a.num) * Sign(b.num), 0))
    ELSE Norm(a.num * b.num, a.den * b.den)

\* a / b for a finite b > 0
RDiv(a, b) ==
    IF a.nan THEN NaN
    ELSE IF a.den = 0 THEN a
    ELSE Norm(a.num * b.den, a.den * b.num)

RAbs(a) == IF a.nan THEN NaN ELSE Real(Abs(a.num), a.den)

\* Python's max(a, b) and min(a, b): the first argument unless the second is
\* strictly greater (smaller); so max(0, NaN) is 0
PyMax(a, b) == IF RLt(a, b) THEN b ELSE a
PyMin(a, b) == IF RLt(b, a) THEN b ELSE a

\* The values round(x, 1) can take.  round() rounds the binary value of the
\* float to the nearest tenth; where the real value lies exactly halfway between
\* two tenths the float may lie on either side, so both tenths are possible.
Round1(x) ==
    IF ~IsFinite(x) THEN {x}
    ELSE LET t == 10 * x.num
             f == t \div x.den
             r == t - f * x.den
         IN  IF 2 * r < x.den THEN {Norm(f, 10)}
             ELSE IF 2 * r > x.den THEN {Norm(f + 1, 10)}
             ELSE {Norm(f, 10), Norm(f + 1, 10)}

----------------------------------------------------------------------------
(* KPICalculator.  A lap summary, the session metadata, the vehicle data and *)
(* the telemetry KPIs are maps from keys to values; dict.get(key, default)  *)
(* is Get.  Times are in seconds here.                                      *)

\* dict.get(key, default)
Get(d, key, default) == IF key \in DOMAIN d THEN d[key] ELSE default

R0 == Real(0, 1)

\* A variant of BuildSessionInfo that leaves an absent entry empty
BuildSessionInfo_EmptyDefaults(session_metadata, now) ==
    [session_id         |-> Get(session_metadata, "session_id", ""),
     track              |-> Get(session_metadata, "track", ""),
     vehicle            |-> Get(session_metadata, "vehicle", ""),
     driver             |-> Get(session_metadata, "driver", ""),
     analysis_timestamp |-> now,
     session_path       |-> Get(session_metadata, "session_path", "")]

\* _build_session_info; now is datetime.now().isoformat()
BuildSessionInfo(session_metadata, now) ==
    [session_id         |-> Get(session_metadata, "session_id", "unknown"),
     track              |-> Get(session_metadata, "track", "Unknown"),
     vehicle            |-> Get(session_metadata, "vehicle", "Unknown"),
     driver             |-> Get(session_metadata, "driver", "Unknown"),
     analysis_timestamp |-> now,
     session_path       |-> Get(session_metadata, "session_path", "")]

\* str(n) for a natural number n
RECURSIVE NatText(_)
NatText(n) == IF n < 10 THEN <<DigitChar(n)>> ELSE NatText(n \div 10) \o <<DigitChar(n % 10)>>

\* A text padded with zeros on the left to a width
RECURSIVE ZeroPad(_, _)
ZeroPad(t, width) == IF Len(t) >= width THEN t ELSE ZeroPad(<<"0">> \o t, width)

\* _format_lap_time raises on NaN and on +inf: int() of them is an error
FormatLapTimeRaises(seconds) == seconds.nan \/ seconds = Inf

\* _format_lap_time: "MM:SS.mmm", the seconds rounded to the millisecond
FormatLapTime(seconds) ==
    IF RLe(seconds, R0) THEN <<"0", "0", ":", "0", "0", ".", "0", "0", "0">>
    ELSE LET minutes == seconds.num \div (60 * seconds.den)
             remaining == RSub(seconds, Real(60 * minutes, 1))
             t == 1000 * remaining.num
             f == t \div remaining.den
             r == t - f * remaining.den
             ms == IF 2 * r < remaining.den THEN f
                   ELSE IF 2 * r > remaining.den THEN f + 1
                   ELSE IF f % 2 = 0 THEN f ELSE f + 1
         IN  ZeroPad(NatText(minutes), 2) \o <<":">> \o ZeroPad(NatText(ms \div 1000), 2)
                \o <<".">> \o ZeroPad(NatText(ms % 1000), 3)

\* _calculate_lap_performance_kpis
CalculateLapPerformanceKpis(lap_summary) ==
    LET best_lap == Get(lap_summary, "best_lap_time", R0)
        avg_lap == Get(lap_summary, "average_lap_time", R0)
        theoretical_best == Get(lap_summary, "theoretical_best", R0)
    IN  [best_lap_time_seconds      |-> best_lap,
         best_lap_time_formatted    |-> FormatLapTime(best_lap),
         average_lap_time_seconds   |-> avg_lap,
         average_lap_time_formatted |-> FormatLapTime(avg_lap),
         theoretical_best_seconds   |-> theoretical_best,
         theoretical_best_formatted |-> FormatLapTime(theoretical_best),
         time_lost_to_theoretical   |-> Get(lap_summary, "time_lost_to_theoretical", R0),
         pace_efficiency_percent    |->
             IF RLt(R0, best_lap)
             THEN RMul(RDiv(theoretical_best, best_lap), Real(100, 1)) ELSE R0,
         average_vs_best_gap        |->
             IF RLt(R0, avg_lap) /\ RLt(R0, best_lap) THEN RSub(avg_lap, best_lap) ELSE R0,
         average_vs_best_percent    |->
             IF RLt(R0, best_lap)
             THEN RMul(RDiv(RSub(avg_lap, best_lap), best_lap), Real(100, 1)) ELSE R0]

LapPerformanceRaises(lap_summary) ==
    \E key \in {"best_lap_time", "average_lap_time", "theoretical_best"} :
        FormatLapTimeRaises(Get(lap_summary, key, R0))

\* A variant of ConsistencyRating whose thresholds are strict
ConsistencyRating_Strict(consistency_index) ==
    IF RLt(consistency_index, Real(1, 100)) THEN "Excellent"
    ELSE IF RLt(consistency_index, Real(2, 100)) THEN "Good"
    ELSE IF RLt(consistency_index, Real(3, 100)) THEN "Average"
    ELSE IF RLt(consistency_index, Real(5, 100)) THEN "Poor"
    ELSE "Very Poor"

\* The consistency rating (lines 103-112)
ConsistencyRating(consistency_index) ==
    IF RLe(consistency_index, Real(1, 100)) THEN "Excellent"
    ELSE IF RLe(consistency_index, Real(2, 100)) THEN "Good"
    ELSE IF RLe(consistency_index, Real(3, 100)) THEN "Average"
    ELSE IF RLe(consistency_index, Real(5, 100)) THEN "Poor"
    ELSE "Very Poor"

\* max(0, 100 - (consistency_index * 1000))
ConsistencyScore(consistency_index) ==
    PyMax(R0, RSub(Real(100, 1), RMul(consistency_index, Real(1000, 1))))

\* _calculate_consistency_kpis
CalculateConsistencyKpis(lap_summary) ==
    LET consistency_index == Get(lap_summary, "consistency_index", R0)
        performance_window == Get(lap_summary, "performance_window_1pct", R0)
        lap_std == Get(lap_summary, "lap_time_std", R0)
    IN  [consistency_index            |-> consistency_index,
         consistency_rating           |-> ConsistencyRating(consistency_index),
         lap_time_standard_deviation  |-> lap_std,
         performance_window_1_percent |-> performance_window,
         consistency_score            |-> ConsistencyScore(consistency_index),
         repeatability_factor         |->
             IF RLt(R0, performance_window) THEN RDiv(performance_window, Real(100, 1))
             ELSE R0]

\* _rate_sector_consistency
RateSectorConsistency(consistency) ==
    IF RLe(consistency, Real(1, 100)) THEN "Excellent"
    ELSE IF RLe(consistency, Real(2, 100)) THEN "Good"
    ELSE IF RLe(consistency, Real(3, 100)) THEN "Average"
    ELSE "Poor"

\* _rate_sector_improvement
RateSectorImprovement(improvement) ==
    IF RLt(Real(1, 10), improvement) THEN "Strong Improvement"
    ELSE IF RLt(Real(5, 100), improvement) THEN "Moderate Improvement"
    ELSE IF RLt(Real(-5, 100), improvement) THEN "Stable"
    ELSE "Decline"

\* The loop of _calculate_sector_kpis over the entries from index i on.  An
\* entry of the sector analysis is [name, mapping, data]; mapping is false for
\* an entry whose data is not a mapping.
RECURSIVE SectorLoop(_, _, _)
SectorLoop(sector_analysis, i, acc) ==
    IF i > Len(sector_analysis) THEN acc
    ELSE LET sector_data == sector_analysis[i].data
             sector_name == sector_analysis[i].name
             consistency == Get(sector_data, "consistency", R0)
             improvement == Get(sector_data, "improvement", R0)
             better == RLt(consistency, acc.best_consistency)
             worse == RLt(acc.worst_consistency, consistency)
         IN  SectorLoop(sector_analysis, i + 1,
                [total_improvement |-> RAdd(acc.total_improvement, improvement),
                 best_consistency  |-> IF better THEN consistency ELSE acc.best_consistency,
                 best_sector       |-> IF better THEN Some(sector_name) ELSE acc.best_sector,
                 worst_consistency |-> IF worse THEN consistency ELSE acc.worst_consistency,
                 worst_sector      |-> IF worse THEN Some(sector_name) ELSE acc.worst_sector])

\* One entry of sector_kpis
SectorKpiEntry(sector_data) ==
    [best_time           |-> Get(sector_data, "best_time", R0),
     best_time_formatted |-> FormatLapTime(Get(sector_data, "best_time", R0)),
     average_time        |-> Get(sector_data, "average_time", R0),
     consistency_index   |-> Get(sector_data, "consistency", R0),
     improvement_seconds |-> Get(sector_data, "improvement", R0),
     consistency_rating  |-> RateSectorConsistency(Get(sector_data, "consistency", R0)),
     improvement_rating  |-> RateSectorImprovement(Get(sector_data, "improvement", R0))]

\* _calculate_sector_kpis
CalculateSectorKpis(lap_summary) ==
    LET sector_analysis == Get(lap_summary, "sector_analysis", <<>>)
        acc == SectorLoop(sector_analysis, 1,
                  [total_improvement |-> R0,
                   best_consistency  |-> Inf,
                   best_sector       |-> None,
                   worst_consistency |-> R0,
                   worst_sector      |-> None])
    IN  IF sector_analysis = <<>>
        THEN [sector_count |-> 0, sectors |-> <<>>]
        ELSE [sector_count               |-> Len(sector_analysis),
              sectors                    |->
                  [i \in 1..Len(sector_analysis) |->
                      [name |-> sector_analysis[i].name,
                       kpis |-> SectorKpiEntry(sector_analysis[i].data)]],
              overall_sector_improvement |-> acc.total_improvement,
              most_consistent_sector     |-> acc.best_sector,
              least_consistent_sector    |-> acc.worst_sector,
              sector_consistency_range   |->
                  RSub(acc.worst_consistency, acc.best_consistency)]

\* sector_data.get raises AttributeError when the entry is not a mapping, and
\* _format_lap_time raises on a best time that is NaN
SectorKpisRaise(lap_summary) ==
    LET sector_analysis == Get(lap_summary, "sector_analysis", <<>>)
    IN  \E i \in 1..Len(sector_analysis) :
            \/ ~sector_analysis[i].mapping
            \/ FormatLapTimeRaises(Get(sector_analysis[i].data, "best_time", R0))

\* _calculate_progression_kpis
CalculateProgressionKpis(lap_summary) ==
    LET progression_trend == Get(lap_summary, "lap_progression_trend", R0)
        valid_laps == Get(lap_summary, "valid_laps", 0)
    IN  [lap_progression_trend |-> progression_trend,
         progression_rating    |->
             IF RLt(Real(1, 10), progression_trend) THEN "Strong Improvement"
             ELSE IF RLt(Real(5, 100), progression_trend) THEN "Moderate Improvement"
             ELSE IF RLt(Real(-5, 100), progression_trend) THEN "Stable"
             ELSE IF RLt(Real(-1, 10), progression_trend) THEN "Slight Decline"
             ELSE "Significant Decline",
         session_length_laps   |-> valid_laps,
         learning_rate         |->
             IF RLt(R0, progression_trend) THEN RAbs(progression_trend) ELSE R0,
         session_stability     |->
             IF RLt(RAbs(progression_trend), Real(1, 1))
             THEN RSub(Real(1, 1), RAbs(progression_trend)) ELSE R0]

\* An entry of the vehicle data is None or [table, rows]: table is false for an
\* object that is not a table (it has no .empty), rows is len(df).
VehicleEntry(vehicle_data, key) == Get(vehicle_data, key, None)

\* _calculate_vehicle_kpis
CalculateVehicleKpis(vehicle_data) ==
    LET present(key) == NotNull(VehicleEntry(vehicle_data, key))
        rows(key) == Val(VehicleEntry(vehicle_data, key)).rows
        fuel == IF present("fuel") /\ rows("fuel") > 0
                THEN ("fuel" :> [data_available |-> TRUE, total_rows |-> rows("fuel")])
                ELSE <<>>
        tires == IF present("tire_temps_left") \/ present("tire_temps_right")
                 THEN ("tires" :> [left_data_available  |-> present("tire_temps_left"),
                                   right_data_available |-> present("tire_temps_right")])
                 ELSE <<>>
        aero == IF present("aero_map") /\ rows("aero_map") > 0
                THEN ("aerodynamics" :>
                         [data_available |-> TRUE, total_rows |-> rows("aero_map")])
                ELSE <<>>
    IN  fuel @@ tires @@ aero

\* fuel_df.empty / aero_df.empty raise AttributeError on an object that is not
\* a table
VehicleKpisRaise(vehicle_data) ==
    \E key \in {"fuel", "aero_map"} :
        /\ NotNull(VehicleEntry(vehicle_data, key))
        /\ ~Val(VehicleEntry(vehicle_data, key)).table

\* _identify_strengths over the sections built so far
IdentifyStrengths(kpis_full) ==
    LET consistency_index == kpis_full.consistency_metrics.consistency_index
        performance_window == kpis_full.consistency_metrics.performance_window_1_percent
        progression_trend == kpis_full.session_progression.lap_progression_trend
        telemetry_kpis == Get(kpis_full, "advanced_telemetry", <<>>)
        smooth(metric, limit) ==
            /\ "advanced_telemetry" \in DOMAIN kpis_full
            /\ RLt(Get(telemetry_kpis, metric, Inf), limit)
        strengths ==
            (IF RLe(consistency_index, Real(2, 100))
             THEN <<"Excellent lap time consistency">> ELSE <<>>)
            \o (IF RLe(Real(80, 1), performance_window)
                THEN <<"High percentage of laps within optimal window">> ELSE <<>>)
            \o (IF RLt(Real(5, 100), progression_trend)
                THEN <<"Strong improvement throughout session">> ELSE <<>>)
            \o (IF smooth("throttle_smoothness", Real(5, 100))
                THEN <<"Smooth throttle application">> ELSE <<>>)
            \o (IF smooth("brake_smoothness", Real(5, 100))
                THEN <<"Smooth braking technique">> ELSE <<>>)
            \o (IF smooth("steering_smoothness", Real(1, 10))
                THEN <<"Precise steering inputs">> ELSE <<>>)
    IN  IF strengths = <<>> THEN <<"Completed session with valid data">> ELSE strengths

\* _identify_improvement_areas over the sections built so far
IdentifyImprovementAreas(kpis_full) ==
    LET consistency_index == kpis_full.consistency_metrics.consistency_index
        time_lost == kpis_full.lap_performance.time_lost_to_theoretical
        progression_trend == kpis_full.session_progression.lap_progression_trend
        telemetry_kpis == Get(kpis_full, "advanced_telemetry", <<>>)
        rough(metric, limit) ==
            /\ "advanced_telemetry" \in DOMAIN kpis_full
            /\ RLt(limit, Get(telemetry_kpis, metric, R0))
    IN  (IF RLt(Real(3, 100), consistency_index)
         THEN <<"Improve lap time consistency">> ELSE <<>>)
        \o (IF RLt(Real(5, 10), time_lost)
            THEN <<"Reduce gap to theoretical best lap">> ELSE <<>>)
        \o (IF RLt(progression_trend, Real(-5, 100))
            THEN <<"Maintain performance throughout session">> ELSE <<>>)
        \o (IF rough("throttle_smoothness", Real(1, 10))
            THEN <<"Smoothen throttle application">> ELSE <<>>)
        \o (IF rough("brake_smoothness", Real(1, 10))
            THEN <<"Refine braking technique for smoother transitions">> ELSE <<>>)
        \o (IF rough("steering_smoothness", Real(2, 10))
            THEN <<"Work on smoother steering inputs">> ELSE <<>>)

\* A variant of PaceScore that rates the pace at the top of the scale
PaceScore_Full == Real(100, 1)

\* pace_score: the fixed base score
PaceScore == Real(50, 1)

\* A variant of ProgressionScore without the upper clamp
ProgressionScore_Unclamped(progression_trend) ==
    PyMax(R0, RAdd(Real(50, 1), RMul(progression_trend, Real(500, 1))))

\* min(100, max(0, 50 + (progression_trend * 500)))
ProgressionScore(progression_trend) ==
    PyMin(Real(100, 1),
          PyMax(R0, RAdd(Real(50, 1), RMul(progression_trend, Real(500, 1)))))

\* A variant of OverallScore that gives the pace half of the weight
OverallScore_PaceWeighted(lap_summary) ==
    RDiv(RAdd(RAdd(RMul(PaceScore, Real(2, 1)),
                   ConsistencyScore(Get(lap_summary, "consistency_index", R0))),
              ProgressionScore(Get(lap_summary, "lap_progression_trend", R0))),
         Real(4, 1))

\* overall_score = (pace_score + consistency_score + progression_score) / 3
OverallScore(lap_summary) ==
    RDiv(RAdd(RAdd(PaceScore,
                   ConsistencyScore(Get(lap_summary, "consistency_index", R0))),
              ProgressionScore(Get(lap_summary, "lap_progression_trend", R0))),
         Real(3, 1))

\* _calculate_performance_summary (the later of the two definitions in the
\* class, which is the one in effect); the o_r, c_r, p_r are the rounded scores
CalculatePerformanceSummary(lap_summary, kpis_full, o_r, c_r, p_r) ==
    [overall_performance_score |-> o_r,
     performance_grade         |-> GradeOf(OverallScore(lap_summary)),
     pace_score                |-> PaceScore,
     consistency_score         |-> c_r,
     progression_score         |-> p_r,
     key_strengths             |-> IdentifyStrengths(kpis_full),
     improvement_areas         |-> IdentifyImprovementAreas(kpis_full)]

\* weighted_score of _calculate_session_rating
WeightedScore(performance_score, consistency_score) ==
    RAdd(RMul(performance_score, Real(6, 10)), RMul(consistency_score, Real(4, 10)))

\* _calculate_session_rating; w_r is the rounded weighted score
CalculateSessionRating(w_r) ==
    [overall_rating   |-> w_r,
     rating_breakdown |-> [performance_weight |-> Real(6, 10),
                           consistency_weight |-> Real(4, 10),
                           weighted_score     |-> w_r]]

\* The section of calculate_session_kpis that raises, or "none".  Nothing in
\* calculate_session_kpis catches an exception.
RaisingSection(lap_summary, vehicle_data) ==
    IF LapPerformanceRaises(lap_summary) THEN "lap_performance"
    ELSE IF SectorKpisRaise(lap_summary) THEN "sector_performance"
    ELSE IF DOMAIN vehicle_data # {} /\ VehicleKpisRaise(vehicle_data) THEN "vehicle_performance"
    ELSE "none"

\* The sections calculate_session_kpis builds before the performance summary
SectionsBuilt(session_metadata, now, lap_summary, vehicle_data, advanced_telemetry_kpis) ==
    [session_info        |-> BuildSessionInfo(session_metadata, now),
     lap_performance     |-> CalculateLapPerformanceKpis(lap_summary),
     consistency_metrics |-> CalculateConsistencyKpis(lap_summary),
     sector_performance  |-> CalculateSectorKpis(lap_summary),
     session_progression |-> CalculateProgressionKpis(lap_summary)]
    @@ (IF DOMAIN vehicle_data # {}
        THEN ("vehicle_performance" :> CalculateVehicleKpis(vehicle_data)) ELSE <<>>)
    @@ (IF DOMAIN advanced_telemetry_kpis # {}
        THEN ("advanced_telemetry" :> advanced_telemetry_kpis) ELSE <<>>)

\* calculate_session_kpis when no section raises: the reports it can return,
\* one for each outcome of the roundings
CalculateSessionKpis(session_metadata, now, lap_summary, vehicle_data, advanced_telemetry_kpis) ==
    LET kpis_full == SectionsBuilt(session_metadata, now, lap_summary, vehicle_data,
                                   advanced_telemetry_kpis)
        cs == ConsistencyScore(Get(lap_summary, "consistency_index", R0))
        ps == ProgressionScore(Get(lap_summary, "lap_progression_trend", R0))
    IN  UNION {
          { kpis_full
            @@ ("performance_summary" :>
                   CalculatePerformanceSummary(lap_summary, kpis_full, o_r, c_r, p_r))
            @@ ("session_rating" :> CalculateSessionRating(w_r))
            : w_r \in Round1(WeightedScore(o_r,
                                kpis_full.consistency_metrics.consistency_score)) }
          : <<o_r, c_r, p_r>> \in
                Round1(OverallScore(lap_summary)) \X Round1(cs) \X Round1(ps) }

----------------------------------------------------------------------------
(* json.dump(kpis, f, indent=2, default=str) *)

\* The token json.dump writes for a float: its repr when finite, and the bare
\* tokens NaN, Infinity and -Infinity otherwise (allow_nan is left at True;
\* default=str is only called for objects json cannot encode, never for floats)
JsonFloat(x) ==
    IF x.nan THEN [kind |-> "bare", token |-> "NaN", value |-> R0]
    ELSE IF x = Inf THEN [kind |-> "bare", token |-> "Infinity", value |-> R0]
    ELSE IF x = NegInf THEN [kind |-> "bare", token |-> "-Infinity", value |-> R0]
    ELSE [kind |-> "number", token |-> "", value |-> x]

\* The float-valued fields of a section, by name
FloatFields(section, names) ==
    [n \in names \cap DOMAIN section |-> section[n]]

\* The floats of a report, keyed by <<section, field>> (for a sector,
\* <<"sector_performance", sector name, field>>)
ReportFloats(kpis_full) ==
    LET of(section, names) ==
            LET fields == FloatFields(kpis_full[section], names)
            IN  [p \in {<<section, n>> : n \in DOMAIN fields} |-> fields[p[2]]]
        sectors == kpis_full.sector_performance.sectors
        sectorNames == {"best_time", "average_time", "consistency_index",
                        "improvement_seconds"}
    IN  of("lap_performance",
           {"best_lap_time_seconds", "average_lap_time_seconds",
            "theoretical_best_seconds", "time_lost_to_theoretical",
            "pace_efficiency_percent", "average_vs_best_gap",
            "average_vs_best_percent"})
        @@ of("consistency_metrics",
              {"consistency_index", "lap_time_standard_deviation",
               "performance_window_1_percent", "consistency_score",
               "repeatability_factor"})
        @@ of("sector_performance",
              {"overall_sector_improvement", "sector_consistency_range"})
        @@ [p \in {<<"sector_performance", sectors[i].name, n>> :
                      i \in 1..Len(sectors), n \in sectorNames} |->
               LET i == CHOOSE j \in 1..Len(sectors) : sectors[j].name = p[2]
               IN  sectors[i].kpis[p[3]]]
        @@ of("session_progression",
              {"lap_progression_trend", "learning_rate", "session_stability"})
        @@ of("performance_summary",
              {"overall_performance_score", "pace_score", "consistency_score",
               "progression_score"})
        @@ of("session_rating", {"overall_rating"})
        @@ (IF "advanced_telemetry" \in DOMAIN kpis_full
            THEN [p \in {<<"advanced_telemetry", n>> :
                            n \in DOMAIN kpis_full.advanced_telemetry} |->
                     kpis_full.advanced_telemetry[p[2]]]
            ELSE <<>>)

\* The number tokens of the JSON text written for a report
JsonDump(kpis_full) ==
    [p \in DOMAIN ReportFloats(kpis_full) |-> JsonFloat(ReportFloats(kpis_full)[p])]

----------------------------------------------------------------------------
(* The inputs calculate_session_kpis is run on *)

\* Consistency indices: std/mean is not negative; NaN is that of a single lap
ConsistencyAlphabet ==
    {Norm(n, 1000) : n \in {0, 5, 10, 11, 15, 20, 21, 30, 31, 50, 51, 100, 101, 200}}
    \cup {Norm(1, 20000), NaN}

\* Progression trends, in seconds per window
TrendAlphabet ==
    {Norm(n, 1000) : n \in {-200, -101, -100, -50, -49, 0, 1, 50, 51, 100, 101, 200}}
    \cup {NaN}

SectorData(best, consistency, improvement) ==
    [best_time    |-> best,
     average_time |-> RAdd(best, Real(1, 2)),
     std_dev      |-> RMul(consistency, RAdd(best, Real(1, 2))),
     consistency  |-> consistency,
     improvement  |-> improvement]

SectorEntry(name, data) == [name |-> name, mapping |-> TRUE, data |-> data]

\* An entry whose data is not a mapping
MalformedSectorEntry(name) == [name |-> name, mapping |-> FALSE, data |-> <<>>]

BaseSectorAnalysis ==
    << SectorEntry("1 Str 1", SectorData(Real(29, 1), Norm(1, 100), R0)),
       SectorEntry("2 Turn 2", SectorData(Real(59, 1), Norm(2, 100), R0)) >>

\* The summary get_lap_summary gives for five laps around 90 s, with a
\* consistency index and a progression trend
BaseSummary(consistency_index, progression_trend) ==
    [session_id               |-> "session_1",
     total_laps               |-> 5,
     valid_laps               |-> 5,
     best_lap_time            |-> Norm(895, 10),
     average_lap_time         |-> Norm(9114, 100),
     lap_time_std             |-> RMul(consistency_index, Norm(9114, 100)),
     consistency_index        |-> consistency_index,
     theoretical_best         |-> Real(88, 1),
     time_lost_to_theoretical |-> Norm(15, 10),
     performance_window_1pct  |-> Real(60, 1),
     sector_count             |-> 2,
     lap_progression_trend    |-> progression_trend,
     sector_analysis          |-> BaseSectorAnalysis]

\* The summary get_lap_summary gives when no lap is left (_empty_result)
ZeroSummary ==
    [session_id               |-> "session_1",
     total_laps               |-> 0,
     valid_laps               |-> 0,
     best_lap_time            |-> R0,
     average_lap_time         |-> R0,
     lap_time_std             |-> R0,
     consistency_index        |-> R0,
     theoretical_best         |-> R0,
     time_lost_to_theoretical |-> R0,
     performance_window_1pct  |-> R0,
     sector_count             |-> 0,
     lap_progression_trend    |-> R0,
     sector_analysis          |-> <<>>]

\* The summary of a session with a single lap: its deviation is NaN
OneLapSummary ==
    [BaseSummary(NaN, R0) EXCEPT !.total_laps = 1, !.valid_laps = 1,
                                 !.average_lap_time = Norm(895, 10),
                                 !.performance_window_1pct = Real(100, 1)]

\* The keys of a lap summary that calculate_session_kpis reads
SummaryKeys ==
    {"best_lap_time", "average_lap_time", "theoretical_best",
     "time_lost_to_theoretical", "consistency_index", "performance_window_1pct",
     "lap_time_std", "sector_analysis", "lap_progression_trend", "valid_laps"}

\* A map without some of its keys
Without(d, keys) == [k \in DOMAIN d \ keys |-> d[k]]

FullMetadata ==
    [session_id |-> "session_1", session_path |-> "/sessions/session_1",
     track |-> "Spa", vehicle |-> "GT3", driver |-> "Ann"]

Table(rows) == Some([table |-> TRUE, rows |-> rows])
\* An object that is not a table
NotATable == Some([table |-> FALSE, rows |-> 0])

\* What parse_vehicle_data returns when no file is there
NoVehicleData ==
    [k \in {"fuel", "tire_temps_left", "tire_temps_right", "aero_map", "engine",
            "suspension"} |-> None]

SmoothnessAlphabet == {Norm(1, 100), Norm(15, 100), Norm(3, 10), NaN}

\* The inputs: summaries over the two alphabets; summaries with keys missing;
\* metadata with keys missing; vehicle data; sector analyses; telemetry KPIs
KpiInputs(summary, metadata, vdata, telemetry_kpis) ==
    \/ /\ \E ci \in ConsistencyAlphabet, trend \in TrendAlphabet :
             summary = BaseSummary(ci, trend)
       /\ metadata = FullMetadata /\ vdata = NoVehicleData /\ telemetry_kpis = <<>>
    \/ /\ \E base \in {BaseSummary(Norm(15, 1000), Norm(1, 10)), ZeroSummary, OneLapSummary},
            keys \in SUBSET SummaryKeys :
             summary = Without(base, keys)
       /\ metadata = FullMetadata /\ vdata = NoVehicleData /\ telemetry_kpis = <<>>
    \/ /\ (summary = ZeroSummary \/ summary = <<>>)
       /\ \E keys \in SUBSET DOMAIN FullMetadata : metadata = Without(FullMetadata, keys)
       /\ (vdata = NoVehicleData \/ vdata = <<>>) /\ telemetry_kpis = <<>>
    \/ /\ summary = BaseSummary(Norm(15, 1000), R0) /\ metadata = FullMetadata
       /\ \E fuel, aero \in {None, Table(0), Table(5), NotATable},
            left, right \in {None, Table(5)} :
             vdata = [NoVehicleData EXCEPT !["fuel"] = fuel, !["aero_map"] = aero,
                                           !["tire_temps_left"] = left,
                                           !["tire_temps_right"] = right]
       /\ telemetry_kpis = <<>>
    \/ /\ \E c1, c2 \in {R0, Norm(1, 100), Norm(4, 100), NaN},
            i1, i2 \in {R0, Norm(2, 10), Norm(-2, 10)},
            third \in {<<>>, <<MalformedSectorEntry("3 Pit")>>} :
             summary = [BaseSummary(Norm(15, 1000), R0) EXCEPT !.sector_analysis =
                          << SectorEntry("1 Str 1", SectorData(Real(29, 1), c1, i1)),
                             SectorEntry("2 Turn 2", SectorData(Real(59, 1), c2, i2)) >>
                          \o third]
       /\ metadata = FullMetadata /\ vdata = NoVehicleData /\ telemetry_kpis = <<>>
    \/ /\ (summary = BaseSummary(Norm(15, 1000), R0) \/ summary = OneLapSummary)
       /\ metadata = FullMetadata /\ vdata = NoVehicleData
       /\ \E keys \in SUBSET {"throttle_smoothness", "brake_smoothness",
                              "steering_smoothness"} :
             telemetry_kpis \in [keys -> SmoothnessAlphabet]

\* The values datetime.now() takes
Clock == {"2024-05-01T10:00:00", "2024-05-01T10:00:01"}

KpiInit ==
    /\ kpc = "input"
    /\ KpiInputs(kpi_summary, kpi_metadata, kpi_vehicle, kpi_telemetry)
    /\ report = <<>>
    /\ kexc = "none"
    /\ json_report = <<>>
    /\ json_kpis = <<>>

\* KPICalculator(metadata).calculate_session_kpis(kpi_summary, kpi_vehicle,
\* kpi_telemetry): the report, or the exception of the section that
\* raises
CalculateKpis ==
    /\ kpc = "input"
    /\ IF RaisingSection(kpi_summary, kpi_vehicle) # "none"
       THEN /\ kexc' = RaisingSection(kpi_summary, kpi_vehicle)
            /\ kpc' = "failed"
            /\ report' = report
       ELSE /\ \E now \in Clock :
                 report' \in CalculateSessionKpis(kpi_metadata, now, kpi_summary,
                                                  kpi_vehicle, kpi_telemetry)
            /\ kpc' = "done"
            /\ kexc' = kexc
    /\ UNCHANGED <<kpi_metadata, kpi_summary, kpi_vehicle, kpi_telemetry,
                   json_report, json_kpis>>
    /\ UNCHANGED <<lapVars, telVars, gradeVars, vehVars, batchVars, ingestVars>>

\* ReportGenerator._generate_json_report
GenerateJsonReport ==
    /\ kpc = "done"
    /\ json_report' = JsonDump(report)
    /\ kpc' = "reported"
    /\ UNCHANGED <<kpi_metadata, kpi_summary, kpi_vehicle, kpi_telemetry,
                   report, kexc, json_kpis>>
    /\ UNCHANGED <<lapVars, telVars, gradeVars, vehVars, batchVars, ingestVars>>

\* KPICalculator.export_kpis_to_json
ExportKpisToJson ==
    /\ kpc = "reported"
    /\ json_kpis' = JsonDump(report)
    /\ kpc' = "exported"
    /\ UNCHANGED <<kpi_metadata, kpi_summary, kpi_vehicle, kpi_telemetry,
                   report, kexc, json_report>>
    /\ UNCHANGED <<lapVars, telVars, gradeVars, vehVars, batchVars, ingestVars>>

----------------------------------------------------------------------------
(* DataParser.parse_vehicle_data over the session-local and the shared     *)
(* PARQUET directory.  A directory maps each file name to None (no such    *)
(* file) or to a file: whether read_parquet can read it, and its table.    *)

\* Lines 266-273: the file name of each subsystem
VehicleFiles ==
    [fuel             |-> "fuel.parquet",
     tire_temps_left  |-> "LeftsideTireTemps.parquet",
     tire_temps_right |-> "rightsidetiretemps.parquet",
     aero_map         |-> "aeromap.parquet",
     engine           |-> "engineoverview.parquet",
     suspension       |-> "Suspension Histogram.parquet"]
VehicleFileNames == {VehicleFiles[k] : k \in DOMAIN VehicleFiles}

File(readable, content) == Some([readable |-> readable, content |-> content])

\* Lines 276-280: the session-local path, or the shared one when the local
\* file does not exist and a shared directory was given
LookupFile(session_dir, base_dir, has_base, filename) ==
    IF IsNull(session_dir[filename]) /\ has_base THEN base_dir[filename]
    ELSE session_dir[filename]

\* Lines 282-290: the table read, None when the file does not exist or
\* read_parquet raises
ReadParquet(file) ==
    IF NotNull(file) /\ Val(file).readable THEN Some(Val(file).content) ELSE None

\* A variant of ParseVehicleData that never looks into the shared directory
ParseVehicleData_SessionOnly(session_dir, base_dir, has_base) ==
    [data_type \in DOMAIN VehicleFiles |-> ReadParquet(session_dir[VehicleFiles[data_type]])]

\* parse_vehicle_data
ParseVehicleData(session_dir, base_dir, has_base) ==
    [data_type \in DOMAIN VehicleFiles |->
        ReadParquet(LookupFile(session_dir, base_dir, has_base, VehicleFiles[data_type]))]

\* The tables of the model: the session-local files hold 1 row, the shared 2
LocalFileStates == {None, File(TRUE, [table |-> TRUE, rows |-> 1]),
                    File(FALSE, [table |-> TRUE, rows |-> 1])}
SharedFileStates == {None, File(TRUE, [table |-> TRUE, rows |-> 2]),
                     File(FALSE, [table |-> TRUE, rows |-> 2])}
NoFiles == [f \in VehicleFileNames |-> None]

\* The directories: at most MaxVehicleFiles of the six names have a file in
\* either directory
VehicleInit ==
    /\ vpc = "files"
    /\ has_base_path \in BOOLEAN
    /\ \E names \in {S \in SUBSET VehicleFileNames : Cardinality(S) <= MaxVehicleFiles} :
         \E local \in [names -> LocalFileStates] : \E shared \in [names -> SharedFileStates] :
            /\ \A f \in names : NotNull(local[f]) \/ NotNull(shared[f])
            /\ session_parquet = [f \in VehicleFileNames |-> IF f \in names THEN local[f] ELSE None]
            /\ base_parquet = [f \in VehicleFileNames |-> IF f \in names THEN shared[f] ELSE None]
    /\ parsed_vehicle = <<>>

\* DataParser.parse_vehicle_data(): nothing in it raises past its handler
ParseVehicleFiles ==
    /\ vpc = "files"
    /\ parsed_vehicle' = ParseVehicleData(session_parquet, base_parquet, has_base_path)
    /\ vpc' = "parsed"
    /\ UNCHANGED <<session_parquet, base_parquet, has_base_path>>
    /\ UNCHANGED <<lapVars, telVars, gradeVars, kpiVars, batchVars, ingestVars>>

----------------------------------------------------------------------------
(* analyze_session and analyze_multiple_sessions (scripts/analyze_session.py) *)
(* A session directory is described by what its files hold: the lap table  *)
(* in the session-local and in the shared PARQUET directory, the vehicle   *)
(* files of both, and the I/O call of the run, if any, at which the system *)
(* raises OSError.  The telemetry steps raise nothing and carry no state   *)
(* of the run; they appear as steps reached.                               *)

\* parse_lap_times: the file of the session directory, else the shared one;
\* None (Python's None) when neither exists or reading raises, else the
\* cleaned frame
ParseLapTimesFile(lap_session, lap_base) ==
    LET lap_file == IF IsNull(lap_session) THEN lap_base ELSE lap_session
    IN  IF IsNull(lap_file) \/ ~Val(lap_file).readable THEN None
        ELSE Some(CleanLapTimeData(Val(lap_file).content))

\* The times of a lap summary that _format_lap_time is called on, in seconds
FormattedTimes(lap_summary) ==
    {Real(lap_summary.best_lap_time, 10),
     Real(lap_summary.average_lap_time.num, 10 * lap_summary.average_lap_time.den),
     Real(lap_summary.theoretical_best, 10)}
    \cup {Real(lap_summary.sector_analysis[name].best_time, 10) :
            name \in DOMAIN lap_summary.sector_analysis}

\* calculate_session_kpis raises on the summary of the analyzer
KpisRaiseOn(lap_summary, vehicle_data) ==
    \/ \E seconds \in FormattedTimes(lap_summary) : FormatLapTimeRaises(seconds)
    \/ VehicleKpisRaise(vehicle_data)

\* The steps of analyze_session, in the order of the code
StepsOfSession ==
    <<"mkdir", "Visualizer", "get_session_metadata", "parse_lap_times",
      "parse_vehicle_data", "parse_telemetry_data", "get_lap_summary", "plot_lap_times",
      "calculate_session_kpis", "generate_comprehensive_report",
      "generate_session_readme", "export_kpis_to_json">>
StepsUpTo(step) ==
    SubSeq(StepsOfSession, 1, CHOOSE i \in 1..Len(StepsOfSession) : StepsOfSession[i] = step)

\* The outcome of one call: the steps reached, the flag returned, whether an
\* exception was raised inside, whether it left the call, and whether the
\* KPI report was produced
Outcome(steps, success, raised, propagated, report_made) ==
    [steps |-> steps, success |-> success, raised |-> raised,
     propagated |-> propagated, report |-> report_made]

\* The step of the run that raises, or "none"
RaisingStep(session) ==
    LET lap_frame     == ParseLapTimesFile(session.lap_session, session.lap_base)
        vehicle_data == ParseVehicleData(session.vehicle_session, session.vehicle_base, TRUE)
        lap_summary  == AnalyzeLaps(CleanLapData(Val(lap_frame).rows),
                                    SectorColumnsOf(Val(lap_frame)))
    IN  IF session.fault \in {"mkdir", "Visualizer"} THEN session.fault
        ELSE IF IsNull(lap_frame) \/ Val(lap_frame).rows = <<>> THEN "none"
        ELSE IF session.fault = "plot_lap_times" THEN session.fault
        ELSE IF KpisRaiseOn(lap_summary, vehicle_data) THEN "calculate_session_kpis"
        ELSE "none"

\* Lines 67-71: parse_lap_times returned None or an empty frame
NoLapData(session) ==
    LET lap_frame == ParseLapTimesFile(session.lap_session, session.lap_base)
    IN  IsNull(lap_frame) \/ Val(lap_frame).rows = <<>>

\* A variant of AnalyzeSession whose handler lets the exception through
AnalyzeSession_Uncaught(session) ==
    IF RaisingStep(session) # "none"
    THEN Outcome(StepsUpTo(RaisingStep(session)), FALSE, TRUE, TRUE, FALSE)
    ELSE IF NoLapData(session)
    THEN Outcome(StepsUpTo("parse_lap_times"), FALSE, FALSE, FALSE, FALSE)
    ELSE Outcome(StepsOfSession, TRUE, FALSE, FALSE, TRUE)

\* analyze_session: the whole body runs inside try / except Exception, which
\* returns False; the early return of lines 69-71 returns False as well
AnalyzeSession(session) ==
    IF RaisingStep(session) # "none"
    THEN Outcome(StepsUpTo(RaisingStep(session)), FALSE, TRUE, FALSE, FALSE)
    ELSE IF NoLapData(session)
    THEN Outcome(StepsUpTo("parse_lap_times"), FALSE, FALSE, FALSE, FALSE)
    ELSE Outcome(StepsOfSession, TRUE, FALSE, FALSE, TRUE)

\* Line 167: the entries of the directory that are directories, in glob order
SessionDirs(entries) ==
    SelectIdx([i \in 1..Len(entries) |-> entries[i].session],
              [i \in 1..Len(entries) |-> entries[i].is_dir], 1)

\* Session directories of the model
Session(lap_session, lap_base, vehicle_session, fault) ==
    [lap_session |-> lap_session, lap_base |-> lap_base,
     vehicle_session |-> vehicle_session, vehicle_base |-> NoFiles, fault |-> fault]
FuelOnly == [f \in VehicleFileNames |->
                IF f = "fuel.parquet" THEN File(TRUE, [table |-> TRUE, rows |-> 1]) ELSE None]
\* a table with no sector row: 'Venue' over a null first cell
NoHeaderTable == MkTable(<<Some(N_Venue), None>>, <<<<Some(TimeText(0, 1, 0))>>, <<Some(TimeText(0, 1, 0))>>>>)
SessionKinds ==
    { Session(File(TRUE, ScenarioWindow), None, NoFiles, "none"),
      Session(None, File(TRUE, ScenarioSectors), FuelOnly, "none"),
      Session(None, None, NoFiles, "none"),
      Session(File(TRUE, NoHeaderTable), None, NoFiles, "none"),
      Session(File(FALSE, ScenarioWindow), File(TRUE, ScenarioWindow), NoFiles, "none"),
      Session(File(TRUE, ScenarioWindow), None, NoFiles, "mkdir"),
      Session(File(TRUE, ScenarioWindow), None, FuelOnly, "plot_lap_times") }

\* What glob yields: session directories, and plain files
DirEntries ==
    {[is_dir |-> TRUE, session |-> s] : s \in SessionKinds}
    \cup {[is_dir |-> FALSE, session |-> Session(None, None, NoFiles, "none")]}

BatchInit ==
    /\ bpc = "start"
    /\ \/ sessions_dir = None
       \/ \E n \in 0..MaxEntries : \E entries \in [1..n -> DirEntries] :
             sessions_dir = Some(entries)
    /\ session_dirs = <<>>
    /\ successful = 0
    /\ failed = 0
    /\ runs = <<>>
    /\ returned = None

\* analyze_multiple_sessions, lines 158-176: 0 when the directory does not
\* exist or holds no session directory
FindSessions ==
    /\ bpc = "start"
    /\ IF IsNull(sessions_dir)
       THEN /\ returned' = Some(0) /\ bpc' = "done" /\ session_dirs' = session_dirs
       ELSE /\ session_dirs' = SessionDirs(Val(sessions_dir))
            /\ IF SessionDirs(Val(sessions_dir)) = <<>>
               THEN returned' = Some(0) /\ bpc' = "done"
               ELSE returned' = returned /\ bpc' = "loop"
    /\ UNCHANGED <<sessions_dir, successful, failed, runs>>
    /\ UNCHANGED <<lapVars, telVars, gradeVars, kpiVars, vehVars, ingestVars>>

\* Lines 178-184: one turn of the loop.  The loop has no handler of its own:
\* an exception that left analyze_session would end the batch.
AnalyzeNextSession ==
    /\ bpc = "loop"
    /\ Len(runs) < Len(session_dirs)
    /\ \E outcome \in {AnalyzeSession(session_dirs[Len(runs) + 1])} :
           /\ runs' = Append(runs, [dir |-> Len(runs) + 1] @@ outcome)
           /\ IF outcome.propagated
              THEN bpc' = "aborted" /\ successful' = successful /\ failed' = failed
              ELSE /\ bpc' = bpc
                   /\ successful' = IF outcome.success THEN successful + 1 ELSE successful
                   /\ failed' = IF outcome.success THEN failed ELSE failed + 1
    /\ UNCHANGED <<sessions_dir, session_dirs, returned>>
    /\ UNCHANGED <<lapVars, telVars, gradeVars, kpiVars, vehVars, ingestVars>>

\* Lines 186-192: the summary, and the number of successful sessions
ReturnSuccessful ==
    /\ bpc = "loop"
    /\ Len(runs) = Len(session_dirs)
    /\ returned' = Some(successful)
    /\ bpc' = "done"
    /\ UNCHANGED <<sessions_dir, session_dirs, successful, failed, runs>>
    /\ UNCHANGED <<lapVars, telVars, gradeVars, kpiVars, vehVars, ingestVars>>

----------------------------------------------------------------------------
(* DataParser.get_session_metadata and parse_telemetry_data: both read     *)
(* driverinputs.parquet, session-local or shared.  The table read keeps    *)
(* its column names and its rows; a cell is a text or missing.             *)

QUOTE == "\""
TXT_Venue == <<"V","e","n","u","e">>
TXT_Vehicle == <<"V","e","h","i","c","l","e">>
TXT_Driver == <<"D","r","i","v","e","r">>
TXT_None == <<"N","o","n","e">>

\* str(cell)
StrCell(cell) == IF IsNull(cell) THEN TXT_None ELSE Val(cell)

\* The texts get_session_metadata can extract from the model's tables, as
\* the strings the metadata dict holds
TextNames ==
    {<<<<"S","p","a">>, "Spa">>, <<<<"M","o","n","z","a">>, "Monza">>, <<<<"G","T","3">>, "GT3">>,
     <<<<"A","n","n">>, "Ann">>, <<<<"B","o","b">>, "Bob">>}
Str(text) == (CHOOSE p \in TextNames : p[1] = text)[2]

LeastOf(S) == CHOOSE x \in S : \A y \in S : x <= y

\* The run [^"]+ that starts at position start and is closed by a quote
QuotedRunAt(text, start) ==
    LET quotes == {e \in start..Len(text) : text[e] = QUOTE}
    IN  IF quotes = {} \/ LeastOf(quotes) = start THEN None
        ELSE Some(SubSeq(text, start, LeastOf(quotes) - 1))

\* re.search(r'"<word>","([^"]+)"', text): group 1 of the leftmost match
SearchMarker(word, text) ==
    LET lit  == <<QUOTE>> \o word \o <<QUOTE, ",", QUOTE>>
        hits == {p \in 1..Len(text) :
                    /\ p + Len(lit) - 1 <= Len(text)
                    /\ SubSeq(text, p, p + Len(lit) - 1) = lit
                    /\ NotNull(QuotedRunAt(text, p + Len(lit)))}
    IN  IF hits = {} THEN None ELSE QuotedRunAt(text, LeastOf(hits) + Len(lit))

\* metadata[key] = match.group(1) if match
PutMatch(metadata, key, match) ==
    IF IsNull(match) THEN metadata ELSE (key :> Str(Val(match))) @@ metadata

\* Lines 319-334: the if/elif chain over one row's leading cell
ScanRow(metadata, row_data) ==
    IF Contains(row_data, TXT_Venue)
    THEN PutMatch(metadata, "track", SearchMarker(TXT_Venue, row_data))
    ELSE IF Contains(row_data, TXT_Vehicle)
    THEN PutMatch(metadata, "vehicle", SearchMarker(TXT_Vehicle, row_data))
    ELSE IF Contains(row_data, TXT_Driver)
    THEN PutMatch(metadata, "driver", SearchMarker(TXT_Driver, row_data))
    ELSE metadata

RECURSIVE ScanRows(_, _, _)
\* Line 318: for idx in range(min(10, len(df)))
ScanRows(metadata, rows, idx) ==
    IF idx > Min2(10, Len(rows)) THEN metadata
    ELSE ScanRows(ScanRow(metadata, StrCell(rows[idx][1])), rows, idx + 1)

\* Lines 310-314 and 139-146: the session-local driverinputs.parquet, or the
\* shared one when the local file does not exist and a shared directory was given
TelemetryFile(local, shared, has_base) ==
    IF IsNull(local) /\ has_base THEN shared ELSE local

\* get_session_metadata: a failed read leaves the four path entries
GetSessionMetadata(local, shared, has_base) ==
    LET metadata == [session_id           |-> "session_1",
                     session_path         |-> "/sessions/session_1",
                     session_parquet_path |-> "/sessions/session_1/PARQUET",
                     base_parquet_path    |-> IF has_base THEN "/PARQUET" ELSE "N/A"]
        telemetry_file == TelemetryFile(local, shared, has_base)
    IN  IF IsNull(telemetry_file) \/ ~Val(telemetry_file).readable THEN metadata
        ELSE ScanRows(metadata, Val(telemetry_file).content.rows, 1)

\* One-column tables: filler rows on top, then rows whose leading cell may
\* carry a marker
MarkerCells ==
    {<<"\"","V","e","n","u","e","\"",",","\"","S","p","a","\"">>, <<"\"","V","e","n","u","e","\"",",","\"","M","o","n","z","a","\"">>, <<"\"","V","e","h","i","c","l","e","\"",",","\"","G","T","3","\"">>,
     <<"\"","D","r","i","v","e","r","\"",",","\"","A","n","n","\"">>, <<"\"","D","r","i","v","e","r","\"",",","\"","B","o","b","\"">>, <<"V","e","n","u","e",":"," ","S","p","a">>}
FillerRow == <<Some(<<"\"","F","o","r","m","a","t","\"",",","\"","C","S","V","\"">>)>>
LeadingColumn == <<<<"u","n","t","a","g","g","e","d","_","d","r","i","v","e","r","i","n","p","u","t","s","c","s","v">>>>
MetadataTables ==
    {[columns |-> LeadingColumn,
      rows    |-> [i \in 1..k |-> FillerRow] \o [i \in 1..Len(m) |-> <<Some(m[i])>>]] :
        k \in 0..MaxFillerRows,
        m \in UNION {[1..n -> MarkerCells] : n \in 0..MaxMarkerRows}}

MetadataInit ==
    /\ mpc = "files"
    /\ \E t \in MetadataTables :
         \/ driverinputs = File(TRUE, t) /\ base_driverinputs = None /\ base_given = FALSE
         \/ driverinputs = None /\ base_driverinputs = File(TRUE, t) /\ base_given \in BOOLEAN
         \/ driverinputs = File(FALSE, t) /\ base_driverinputs = None /\ base_given = TRUE
    /\ parser_metadata = <<>>
    /\ session_info = <<>>
    /\ ipc = "idle" /\ parsed_telemetry = None

\* DataParser.get_session_metadata()
ReadSessionMetadata ==
    /\ mpc = "files"
    /\ parser_metadata' = GetSessionMetadata(driverinputs, base_driverinputs, base_given)
    /\ mpc' = "metadata"
    /\ UNCHANGED <<driverinputs, base_driverinputs, base_given, session_info, ipc, parsed_telemetry>>
    /\ UNCHANGED <<lapVars, telVars, gradeVars, kpiVars, vehVars, batchVars>>

\* KPICalculator(session_metadata)._build_session_info()
BuildInfo ==
    /\ mpc = "metadata"
    /\ session_info' = BuildSessionInfo(parser_metadata, "2024-01-01T00:00:00")
    /\ mpc' = "info"
    /\ UNCHANGED <<driverinputs, base_driverinputs, base_given, parser_metadata, ipc, parsed_telemetry>>
    /\ UNCHANGED <<lapVars, telVars, gradeVars, kpiVars, vehVars, batchVars>>

----------------------------------------------------------------------------
(* DataParser._clean_telemetry_data and parse_telemetry_data.  A cleaned   *)
(* frame keeps its column names as texts; the cells of a column coerced by *)
(* pd.to_numeric are numbers in hundredths, or missing.                    *)

TXT_time == <<"t","i","m","e">>
TXT_throttle == <<"t","h","r","o","t","t","l","e">>
TXT_brake == <<"b","r","a","k","e">>
TXT_steeringangle == <<"s","t","e","e","r","i","n","g","a","n","g","l","e">>
\* Line 176
ExpectedCols == <<TXT_time, TXT_throttle, TXT_brake, TXT_steeringangle>>

RECURSIVE JoinTexts(_, _)
\* sep.join(texts)
JoinTexts(texts, sep) ==
    IF texts = <<>> THEN <<>>
    ELSE IF Len(texts) = 1 THEN texts[1]
    ELSE texts[1] \o sep \o JoinTexts(Tail(texts), sep)

\* Line 180: " ".join(str(x) for x in row.values if pd.notna(x)).lower()
RowStr(row) ==
    LET present == SelectSeq(row, NotNull)
    IN  Lower(JoinTexts([i \in 1..Len(present) |-> Val(present[i])], <<" ">>))

\* Line 183: at least half of the expected names occur in the row text
IsTelemetryHeader(row) ==
    2 * Cardinality({i \in 1..Len(ExpectedCols) : Contains(RowStr(row), ExpectedCols[i])})
        >= Len(ExpectedCols)

\* A variant of HeaderRowIdx that takes the last qualifying row
HeaderRowIdx_FromBottom(rows) ==
    LET hits == {i \in 1..Len(rows) : IsTelemetryHeader(rows[i])}
    IN  IF hits = {} THEN 0 ELSE CHOOSE i \in hits : \A k \in hits : k <= i

\* Lines 178-186: the position of the first qualifying row, 0 when there is none
HeaderRowIdx(rows) ==
    LET hits == {i \in 1..Len(rows) : IsTelemetryHeader(rows[i])}
    IN  IF hits = {} THEN 0 ELSE LeastOf(hits)

\* pd.DataFrame()
EmptyTable == [columns |-> <<>>, rows |-> <<>>]

IsWordChar(c) ==
    \/ IsDigit(c) \/ c = "_"
    \/ \E i \in 1..26 : UpperCase[i] = c \/ LowerCase[i] = c

\* Line 215: re.sub(r'\W+', '', str(col)).strip()
CleanHeaderName(cell) == Strip(SelectSeq(StrCell(cell), IsWordChar))

TXT_TimeThrottleBrakeSteering == <<"T","i","m","e","T","h","r","o","t","t","l","e","B","r","a","k","e","S","t","e","e","r","i","n","g">>
TXT_untagged == <<"u","n","t","a","g","g","e","d","_","d","r","i","v","e","r","i","n","p","u","t","s","c","s","v">>
TXT_col_ == <<"c","o","l","_">>
TXT_Time == <<"T","i","m","e">>
TXT_Throttle == <<"T","h","r","o","t","t","l","e">>
TXT_Brake == <<"B","r","a","k","e">>
TXT_SteeringAngle == <<"S","t","e","e","r","i","n","g","A","n","g","l","e">>
TXT_Speed == <<"S","p","e","e","d">>
TXT_Distance == <<"D","i","s","t","a","n","c","e">>

\* Line 201
PotentialCols ==
    <<TXT_Time, TXT_Throttle, TXT_Brake, <<"S","t","e","e","r","i","n","g","W","h","e","e","l","A","n","g","l","e">>,
      <<"L","a","t","A","c","c","e","l","m","s","2">>, <<"L","o","n","g","A","c","c","e","l","m","s","2">>, <<"Y","a","w","R","a","t","e">>>>

\* f"col_{i}" for every column
SyntheticCols(n) == [i \in 1..n |-> TXT_col_ \o NatText(i - 1)]

\* Line 198: the whole header sits in the first cell
IsConcatenatedHeader(header_row) ==
    header_row # <<>> /\ NotNull(header_row[1]) /\ Contains(Val(header_row[1]), TXT_TimeThrottleBrakeSteering)

\* Lines 204-207 and 215-217, before the drop of line 211: the column names
\* given to the data rows
AssignedColumns(columns, header_row) ==
    LET n == Len(columns)
    IN  IF IsConcatenatedHeader(header_row)
        THEN IF n >= Len(PotentialCols)
             THEN PotentialCols \o SubSeq(columns, Len(PotentialCols) + 1, n)
             ELSE SyntheticCols(n)
        ELSE [i \in 1..n |-> CleanHeaderName(header_row[i])]

\* Lines 225-236
ColumnMapping ==
    {<<TXT_time, TXT_Time>>, <<TXT_throttle, TXT_Throttle>>, <<TXT_brake, TXT_Brake>>,
     <<TXT_steeringangle, TXT_SteeringAngle>>, <<<<"s","t","e","e","r","i","n","g">>, TXT_SteeringAngle>>,
     <<<<"s","p","e","e","d">>, TXT_Speed>>, <<<<"d","i","s","t","a","n","c","e">>, TXT_Distance>>,
     <<<<"l","a","t","a","c","c","e","l","m","s","2">>, <<"L","a","t","A","c","c","e","l">>>>, <<<<"l","o","n","g","a","c","c","e","l","m","s","2">>, <<"L","o","n","g","A","c","c","e","l">>>>,
     <<<<"y","a","w","r","a","t","e">>, <<"Y","a","w","R","a","t","e">>>>}

\* Lines 238-246: the canonical name of a column, or the name it had
RenameColumn(col) ==
    LET cleaned_col == Lower(Strip(SelectSeq(col, IsWordChar)))
    IN  IF \E p \in ColumnMapping : p[1] = cleaned_col
        THEN (CHOOSE p \in ColumnMapping : p[1] = cleaned_col)[2]
        ELSE col

\* Line 250
NumericColumns == {TXT_Time, TXT_Throttle, TXT_Brake, TXT_SteeringAngle, TXT_Speed, TXT_Distance}

\* pd.to_numeric(errors='coerce') of one cell, in hundredths: the texts of the
\* model's tables are digits with at most two decimals, or no number at all
ToNumeric(cell) ==
    IF IsNull(cell) THEN None
    ELSE LET t   == Strip(Val(cell))
             dot == IndexOf(t, ".")
             int == IF dot = 0 THEN t ELSE SubSeq(t, 1, dot - 1)
             dec == IF dot = 0 THEN <<>> ELSE SubSeq(t, dot + 1, Len(t))
         IN  IF int # <<>> /\ AllDigits(int) /\ AllDigits(dec) /\ Len(dec) <= 2
                /\ (dot = 0 \/ dec # <<>>)
             THEN Some(100 * DigitsValue(int)
                       + (IF dec = <<>> THEN 0
                          ELSE IF Len(dec) = 1 THEN 10 * DigitsValue(dec)
                          ELSE DigitsValue(dec)))
             ELSE None

\* Lines 204-211, 215-217 and 238-246: the positions of the columns that stay,
\* and the names they end up with
FinalColumns(columns, header_row) ==
    LET named == AssignedColumns(columns, header_row)
        keep  == [i \in 1..Len(named) |->
                    ~(IsConcatenatedHeader(header_row) /\ named[i] = TXT_untagged)]
        kept  == SelectIdx([i \in 1..Len(named) |-> i], keep, 1)
    IN  [kept |-> kept, names |-> [i \in 1..Len(kept) |-> RenameColumn(named[kept[i]])]]

\* Lines 193 and 250-252: the rows after the header, the cells of the numeric
\* columns coerced
CoercedRows(rows, h, cols) ==
    [r \in 1..(Len(rows) - h) |->
        [i \in 1..Len(cols.kept) |->
            IF cols.names[i] \in NumericColumns THEN ToNumeric(rows[h + r][cols.kept[i]])
            ELSE rows[h + r][cols.kept[i]]]]

\* Line 252 raises when pd.to_numeric is handed the two-dimensional selection
\* of a column name that occurs twice
CoercionRaises(names) ==
    \E i, j \in 1..Len(names) : i # j /\ names[i] = names[j] /\ names[i] \in NumericColumns

\* The one value of a singleton set
The(S) == CHOOSE x \in S : TRUE

\* _clean_telemetry_data: the cleaned frame, and whether the coercion raised
CleanTelemetryData(df) ==
    The({IF h = 0 THEN [raised |-> FALSE, frame |-> EmptyTable]
         ELSE The({[raised |-> CoercionRaises(cols.names),
                    frame  |-> [columns |-> cols.names,
                                rows    |-> CoercedRows(df.rows, h, cols)]] :
                      cols \in {FinalColumns(df.columns, df.rows[h])}}) :
            h \in {HeaderRowIdx(df.rows)}})

\* parse_telemetry_data: None when there is no file, or when the read or the
\* cleaning raises
ParseTelemetryData(local, shared, has_base) ==
    LET telemetry_file == TelemetryFile(local, shared, has_base)
    IN  IF IsNull(telemetry_file) \/ ~Val(telemetry_file).readable THEN None
        ELSE LET cleaned_df == CleanTelemetryData(Val(telemetry_file).content)
             IN  IF cleaned_df.raised THEN None ELSE Some(cleaned_df.frame)

\* The columns TelemetryAnalyzer looks for, as the cleaned frame names them
RequiredText ==
    [Time |-> TXT_Time, Throttle |-> TXT_Throttle, Brake |-> TXT_Brake,
     SteeringAngle |-> TXT_SteeringAngle]

ColumnIdx(frame, name) == CHOOSE i \in 1..Len(frame.columns) : frame.columns[i] = name

\* The cleaned frame as TelemetryAnalyzer reads it: its required columns
AnalyzerFrame(frame) ==
    [c \in {c \in RequiredColumns : HasColumn(frame, RequiredText[c])} |->
        [r \in 1..Len(frame.rows) |-> frame.rows[r][ColumnIdx(frame, RequiredText[c])]]]

\* The rows of the model's tables
RowVenue == <<Some(<<"V","e","n","u","e">>), Some(<<"S","p","a">>), None, None>>
RowLapTime == <<Some(<<"L","a","p"," ","T","i","m","e">>), Some(<<"1",":","3","0",".","0","0","0">>), None, None>>
RowBrakeBias == <<Some(<<"B","r","a","k","e"," ","B","i","a","s">>), Some(<<"T","h","r","o","t","t","l","e"," ","M","a","p">>), None, None>>
RowSpeed == <<Some(<<"T","i","m","e">>), Some(<<"S","p","e","e","d">>), Some(<<"D","i","s","t","a","n","c","e">>), Some(<<"G","e","a","r">>)>>
HeaderPlain == <<Some(<<"T","i","m","e">>), Some(<<"T","h","r","o","t","t","l","e">>), Some(<<"B","r","a","k","e">>), Some(<<"S","t","e","e","r","i","n","g">>)>>
HeaderUnits == <<Some(<<"T","i","m","e"," ","(","s",")">>), Some(<<"T","h","r","o","t","t","l","e"," ","%">>), Some(<<"B","r","a","k","e"," ","%">>), Some(<<"S","t","e","e","r","i","n","g"," ","A","n","g","l","e">>)>>
HeaderAngle == <<Some(<<"t","i","m","e">>), Some(<<"t","h","r","o","t","t","l","e">>), Some(<<"b","r","a","k","e">>), Some(<<"s","t","e","e","r","i","n","g","a","n","g","l","e">>)>>
HeaderBoth == <<Some(<<"T","i","m","e">>), Some(<<"B","r","a","k","e">>), Some(<<"S","t","e","e","r","i","n","g">>), Some(<<"S","t","e","e","r","i","n","g","A","n","g","l","e">>)>>
Data1 == <<Some(<<"1">>), Some(<<"0",".","5">>), Some(<<"0",".","0","0">>), Some(<<"0",".","3","0">>)>>
Data2 == <<Some(<<"2">>), Some(<<"n","/","a">>), Some(<<"0",".","5","0">>), None>>

PreRows == {RowVenue, RowLapTime, RowBrakeBias, RowSpeed}
HeaderRows == {HeaderPlain, HeaderUnits, HeaderAngle, HeaderBoth}
DataRows == {Data1, Data2}
SeqsUpTo(S, n) == UNION {[1..k -> S] : k \in 0..n}

\* Four-column tables: rows above the header, a header or none, data rows
PlainTables ==
    {[columns |-> <<<<"0">>, <<"1">>, <<"2">>, <<"3">>>>, rows |-> pre \o hdr \o data] :
        pre \in SeqsUpTo(PreRows, MaxPreRows),
        hdr \in {<<>>} \cup {<<h>> : h \in HeaderRows},
        data \in SeqsUpTo(DataRows, MaxDataRows)}

\* Tables whose header row holds every name in its first cell
HeaderConcatenated(n) ==
    [i \in 1..n |-> IF i = 1 THEN Some(<<"T","i","m","e","T","h","r","o","t","t","l","e","B","r","a","k","e","S","t","e","e","r","i","n","g","W","h","e","e","l","A","n","g","l","e","L","a","t","A","c","c","e","l","L","o","n","g","A","c","c","e","l","Y","a","w","R","a","t","e">>)
                    ELSE None]
WideData(n, t) ==
    [i \in 1..n |-> IF i = 1 THEN Some(NatText(t)) ELSE IF i % 2 = 0 THEN Some(<<"0",".","5","0">>)
                    ELSE Some(<<"0",".","3","0">>)]
ConcatenatedTables ==
    {[columns |-> [i \in 1..n |-> IF i = n THEN TXT_untagged ELSE NatText(i - 1)],
      rows    |-> <<HeaderConcatenated(n)>> \o [t \in 1..k |-> WideData(n, t)]] :
        n \in {2, 7, 8}, k \in 0..MaxDataRows}

RawTelemetryTables == PlainTables \cup ConcatenatedTables

IngestInit ==
    /\ ipc = "file"
    /\ \/ \E t \in RawTelemetryTables :
            driverinputs = File(TRUE, t) /\ base_driverinputs = None /\ base_given = FALSE
       \/ \E t \in ConcatenatedTables :
            \/ driverinputs = None /\ base_driverinputs = File(TRUE, t) /\ base_given \in BOOLEAN
            \/ driverinputs = File(FALSE, t) /\ base_driverinputs = None /\ base_given = TRUE
    /\ parsed_telemetry = None
    /\ mpc = "idle" /\ parser_metadata = <<>> /\ session_info = <<>>

\* analyze_session, line 82: DataParser.parse_telemetry_data()
ParseTelemetry ==
    /\ ipc = "file"
    /\ parsed_telemetry' = ParseTelemetryData(driverinputs, base_driverinputs, base_given)
    /\ ipc' = "parsed"
    /\ UNCHANGED <<driverinputs, base_driverinputs, base_given, mpc, parser_metadata, session_info>>
    /\ UNCHANGED <<lapVars, telVars, gradeVars, kpiVars, vehVars, batchVars>>

\* analyze_session, lines 84-89: the frame goes to TelemetryAnalyzer unless
\* it is None or empty
HandToAnalyzer ==
    /\ ipc = "parsed"
    /\ IF NotNull(parsed_telemetry) /\ Val(parsed_telemetry).rows # <<>>
       THEN /\ telemetry' = AnalyzerFrame(Val(parsed_telemetry))
            /\ tpc' = "new"
            /\ ipc' = "analysis"
       ELSE /\ ipc' = "skipped"
            /\ UNCHANGED <<tpc, telemetry>>
    /\ UNCHANGED <<warned, kpis>>
    /\ UNCHANGED <<driverinputs, base_driverinputs, base_given, parsed_telemetry,
                   mpc, parser_metadata, session_info>>
    /\ UNCHANGED <<lapVars, gradeVars, kpiVars, vehVars, batchVars>>

----------------------------------------------------------------------------
(* Specifications: each runs one component, the others stay idle *)

LapIdle ==
    /\ pc = "idle" /\ raw = [rows |-> <<>>] /\ lapTable = EmptyFrame
    /\ sector_columns = <<>> /\ lap_data = <<>> /\ removed = 0
    /\ result = EmptyResult /\ exc = "none"
TelemetryIdle == tpc = "idle" /\ telemetry = <<>> /\ warned = {} /\ kpis = <<>>
GradeIdle == gpc = "idle" /\ scores = <<>> /\ grades = <<>>
KpiIdle ==
    /\ kpc = "idle" /\ kpi_metadata = <<>> /\ kpi_summary = <<>>
    /\ kpi_vehicle = <<>> /\ kpi_telemetry = <<>> /\ report = <<>>
    /\ kexc = "none" /\ json_report = <<>> /\ json_kpis = <<>>

VehicleIdle ==
    /\ vpc = "idle" /\ session_parquet = <<>> /\ base_parquet = <<>>
    /\ has_base_path = FALSE /\ parsed_vehicle = <<>>
BatchIdle ==
    /\ bpc = "idle" /\ sessions_dir = None /\ session_dirs = <<>>
    /\ successful = 0 /\ failed = 0 /\ runs = <<>> /\ returned = None
IngestIdle ==
    /\ mpc = "idle" /\ driverinputs = None /\ base_driverinputs = None
    /\ base_given = FALSE /\ parser_metadata = <<>> /\ session_info = <<>>
    /\ ipc = "idle" /\ parsed_telemetry = None
OthersIdle == VehicleIdle /\ BatchIdle /\ IngestIdle

Init == LapInit /\ TelemetryIdle /\ GradeIdle /\ KpiIdle /\ OthersIdle
Next == ReadLapColumn \/ ParseLapTimes \/ NewLapAnalyzer \/ GetLapSummary
Spec == Init /\ [][Next]_vars

TelemetrySpecInit == LapIdle /\ TelemetryInit /\ GradeIdle /\ KpiIdle /\ OthersIdle
TelemetrySpecNext == ReadSample \/ NewTelemetryAnalyzer \/ AdvancedTelemetryKpis
TelemetrySpec == TelemetrySpecInit /\ [][TelemetrySpecNext]_vars

GradeSpecInit == LapIdle /\ TelemetryIdle /\ GradeInit /\ KpiIdle /\ OthersIdle
GradeSpecNext == AssignGrades
GradeSpec == GradeSpecInit /\ [][GradeSpecNext]_vars

KpiSpecInit == LapIdle /\ TelemetryIdle /\ GradeIdle /\ KpiInit /\ OthersIdle
KpiSpecNext == CalculateKpis \/ GenerateJsonReport \/ ExportKpisToJson
KpiSpec == KpiSpecInit /\ [][KpiSpecNext]_vars

VehicleSpecInit ==
    LapIdle /\ TelemetryIdle /\ GradeIdle /\ KpiIdle /\ VehicleInit /\ BatchIdle /\ IngestIdle
VehicleSpecNext == ParseVehicleFiles
VehicleSpec == VehicleSpecInit /\ [][VehicleSpecNext]_vars

BatchSpecInit ==
    LapIdle /\ TelemetryIdle /\ GradeIdle /\ KpiIdle /\ VehicleIdle /\ BatchInit /\ IngestIdle
BatchSpecNext == FindSessions \/ AnalyzeNextSession \/ ReturnSuccessful
BatchSpec == BatchSpecInit /\ [][BatchSpecNext]_vars

MetadataSpecInit ==
    LapIdle /\ TelemetryIdle /\ GradeIdle /\ KpiIdle /\ VehicleIdle /\ BatchIdle /\ MetadataInit
MetadataSpecNext == ReadSessionMetadata \/ BuildInfo
MetadataSpec == MetadataSpecInit /\ [][MetadataSpecNext]_vars

IngestSpecInit ==
    LapIdle /\ TelemetryIdle /\ GradeIdle /\ KpiIdle /\ VehicleIdle /\ BatchIdle /\ IngestInit
IngestSpecNext ==
    ParseTelemetry \/ HandToAnalyzer \/ NewTelemetryAnalyzer \/ AdvancedTelemetryKpis
IngestSpec == IngestSpecInit /\ [][IngestSpecNext]_vars

----------------------------------------------------------------------------
(* Properties of the lap pipeline (specification Spec) *)

Analyzed == pc = "analyzed"
Constructed == pc \in {"ready", "analyzed"}

\* The sector columns DataParser gave the lap table
TableSectors == IF lapTable.rows = <<>> THEN {} ELSE DOMAIN lapTable.rows[1].sectors

RECURSIVE SetSum(_, _)
\* The sum of f over a finite set
SetSum(f, S) == IF S = {} THEN 0
                ELSE LET x == CHOOSE x \in S : TRUE IN f[x] + SetSum(f, S \ {x})

\* C1: after DataParser and analyze_laps, with at least one lap surviving the
\* cleaning, theoretical_best <= best_lap_time and time_lost_to_theoretical >= 0,
\* and no surviving lap's total is below theoretical_best.
C1_TheoreticalBestIsLowerBound ==
    (Analyzed /\ result.valid_laps >= 1) =>
        /\ result.theoretical_best <= result.best_lap_time
        /\ result.time_lost_to_theoretical >= 0
        /\ \A i \in 1..Len(lap_data) :
              result.theoretical_best <= Val(lap_data[i].total_lap_time)

\* C1 witness: two sectors whose best times come from different laps, so the
\* theoretical best is positive and strictly below the best lap.
C1_Witness ==
    /\ Analyzed
    /\ result.valid_laps >= 2
    /\ Len(sector_columns) = 2
    /\ result.theoretical_best > 0
    /\ result.theoretical_best < result.best_lap_time
    /\ result.time_lost_to_theoretical > 0

\* C2: every lap record DataParser produces has total_lap_time equal to the sum
\* of its sector values when all of them are present, and null otherwise.
C2_TotalIsSumOrNull ==
    pc # "raw" =>
        \A i \in 1..Len(lapTable.rows) :
            LET lap == lapTable.rows[i]
                S   == DOMAIN lap.sectors
            IN  IF \A c \in S : lap.sectors[c] # None
                THEN lap.total_lap_time = Some(SetSum([c \in S |-> Val(lap.sectors[c])], S))
                ELSE lap.total_lap_time = None

\* C2 witness: a parsed table of two sectors with a complete lap and a lap that
\* misses one sector but not the other.
C2_Witness ==
    /\ pc = "parsed"
    /\ Cardinality(TableSectors) = 2
    /\ \E i \in 1..Len(lapTable.rows) :
          /\ lapTable.rows[i].total_lap_time # None
          /\ Val(lapTable.rows[i].total_lap_time) = 80
    /\ \E i \in 1..Len(lapTable.rows) :
          /\ \E c \in TableSectors : lapTable.rows[i].sectors[c] = None
          /\ \E c \in TableSectors : lapTable.rows[i].sectors[c] # None

RECURSIVE C3_Insert(_, _)
C3_Insert(x, sorted) ==
    IF sorted = <<>> THEN <<x>>
    ELSE IF x <= sorted[1] THEN <<x>> \o sorted
    ELSE <<sorted[1]>> \o C3_Insert(x, Tail(sorted))
RECURSIVE C3_Sort(_)
C3_Sort(s) == IF s = <<>> THEN <<>> ELSE C3_Insert(s[1], C3_Sort(Tail(s)))

\* Twice the median of a non-empty sequence, read off the sorted sequence
C3_TwiceMedian(s) ==
    LET n == Len(s)
        t == C3_Sort(s)
    IN  IF n % 2 = 1 THEN 2 * t[(n + 1) \div 2] ELSE t[n \div 2] + t[n \div 2 + 1]

\* The lap numbers of the table's laps that have a total, in table order
C3_ValidLaps ==
    LET RECURSIVE from(_)
        from(i) == IF i > Len(lapTable.rows) THEN <<>>
                   ELSE (IF lapTable.rows[i].total_lap_time # None THEN <<i>> ELSE <<>>)
                        \o from(i + 1)
    IN  from(1)

\* Those of them the claim says are kept
C3_ExpectedLaps ==
    LET valid == C3_ValidLaps
        t(k)  == Val(lapTable.rows[valid[k]].total_lap_time)
        m2    == C3_TwiceMedian([k \in 1..Len(valid) |-> t(k)])
        RECURSIVE from(_)
        from(k) == IF k > Len(valid) THEN <<>>
                   ELSE (IF m2 <= 4 * t(k) /\ 2 * t(k) <= 3 * m2 THEN <<valid[k]>> ELSE <<>>)
                        \o from(k + 1)
    IN  IF Len(valid) > 3 THEN from(1) ELSE valid

\* C3: cleaning drops the laps without a total; with more than three left it
\* keeps exactly those with 0.5*median <= total <= 3*median, in order, and with
\* three or fewer it removes none.  The injected 902.0 lap is the one lap
\* removed from [90.0, 91.0, 89.5, 95.0, 90.2, 902.0]; without it nothing is
\* removed and the best lap is 89.5.
C3_CleaningKeepsLapsWithinMedianBounds ==
    /\ Constructed =>
         /\ lap_data = [k \in 1..Len(C3_ExpectedLaps) |-> lapTable.rows[C3_ExpectedLaps[k]]]
         /\ removed = Len(C3_ValidLaps) - Len(C3_ExpectedLaps)
         /\ Len(C3_ValidLaps) <= 3 => removed = 0
    /\ (Constructed /\ raw = ScenarioInjected) =>
         /\ removed = 1
         /\ [k \in 1..Len(lap_data) |-> lap_data[k].lap_number] = <<1, 2, 3, 4, 5>>
    /\ (Constructed /\ raw = ScenarioFiveLaps) => (removed = 0 /\ Len(lap_data) = 5)
    /\ (Analyzed /\ raw \in {ScenarioFiveLaps, ScenarioInjected}) => result.best_lap_time = 895

\* C3 witness: the analyzer built on the table with the injected lap, one lap removed.
C3_Witness ==
    /\ pc = "ready"
    /\ raw = ScenarioInjected
    /\ Len(lapTable.rows) = 6
    /\ removed = 1
    /\ Len(lap_data) = 5

\* The totals of the analyzer's laps
LapTotals == [i \in 1..Len(lap_data) |-> Val(lap_data[i].total_lap_time)]

\* C4: a session of n >= 1 valid laps with identical total lap times has
\* consistency_index = 0.
C4_IdenticalLapsHaveZeroConsistencyIndex ==
    (Analyzed /\ result.valid_laps >= 1
       /\ \A i, j \in 1..Len(lap_data) : LapTotals[i] = LapTotals[j])
    => IsZero(result.consistency_index)

\* C7: when no lap remains after cleaning (all totals null, or no lap rows at
\* all), constructing the analyzer and summarising raises nothing and yields the
\* zeroed result: numeric metrics 0, valid_laps 0, no sector analysis, no
\* progression, trend 0.
C7_NoLapsYieldZeroedResult ==
    (pc \in {"ready", "failed", "analyzed"}
       /\ \A i \in 1..Len(lapTable.rows) : lapTable.rows[i].total_lap_time = None)
    => /\ exc = "none"
       /\ pc # "failed"
       /\ Analyzed =>
            /\ result.valid_laps = 0 /\ result.total_laps = 0
            /\ result.best_lap_time = 0 /\ result.average_lap_time.num = 0
            /\ IsZero(result.lap_time_std) /\ IsZero(result.consistency_index)
            /\ result.theoretical_best = 0 /\ result.time_lost_to_theoretical = 0
            /\ result.performance_window.num = 0
            /\ DOMAIN result.sector_analysis = {}
            /\ result.lap_progression = <<>>
            /\ result.lap_progression_trend.num = 0

\* The number of the analyzer's laps within 1% of the best one
C8_LapsInWindow ==
    Cardinality({i \in 1..Len(lap_data) : 100 * LapTotals[i] <= 101 * result.best_lap_time})

\* C8: performance_window = 100 * (laps with total <= 1.01 * best) / (laps), and
\* 0 if best <= 0; so it lies in (0, 100] when best > 0 and is 100 when every
\* lap equals the best.
C8_PerformanceWindowIsShareWithinOnePercent ==
    (Analyzed /\ result.valid_laps >= 1) =>
        LET pw == result.performance_window
            n  == Len(lap_data)
        IN  /\ result.best_lap_time > 0 =>
                 /\ pw.num * n = 100 * C8_LapsInWindow * pw.den
                 /\ pw.num > 0
                 /\ pw.num <= 100 * pw.den
            /\ result.best_lap_time <= 0 => pw.num = 0
            /\ (result.best_lap_time > 0
                  /\ \A i \in 1..n : LapTotals[i] = result.best_lap_time)
               => pw.num = 100 * pw.den

\* C8 witness: a session whose best lap is positive and twice attained, with a
\* third lap outside the 1% window.
C8_Witness ==
    /\ Analyzed
    /\ result.valid_laps = 3
    /\ result.best_lap_time > 0
    /\ C8_LapsInWindow = 2
    /\ FracEq(result.performance_window, Frac(200, 3))

\* The minimum of a sector over the analyzer's laps that have it
C9_SectorBest(c) ==
    LET present == {i \in 1..Len(lap_data) : lap_data[i].sectors[c] # None}
    IN  CHOOSE m \in {Val(lap_data[i].sectors[c]) : i \in present} :
            \A i \in present : m <= Val(lap_data[i].sectors[c])

\* The sectors of the lap table with a value among the analyzer's laps
C9_SectorsWithData ==
    {c \in TableSectors : \E i \in 1..Len(lap_data) : lap_data[i].sectors[c] # None}

\* C9: theoretical_best is the sum, over every sector of the lap table with at
\* least one value among the laps, of the sector's minimum, and 0 when no sector
\* has a value; sectors {A: [30, 31, 29], B: [60, 61, 59]} give 88.
C9_TheoreticalBestSumsEverySector ==
    /\ Analyzed =>
         result.theoretical_best =
            SetSum([c \in C9_SectorsWithData |-> C9_SectorBest(c)], C9_SectorsWithData)
    /\ (Analyzed /\ raw = ScenarioSectors) => result.theoretical_best = 880

----------------------------------------------------------------------------
(* Properties of the telemetry analysis (specification TelemetrySpec) *)

SmoothnessMetric(c) ==
    CASE c = "Throttle" -> "throttle_smoothness"
      [] c = "Brake" -> "brake_smoothness"
      [] c = "SteeringAngle" -> "steering_smoothness"

\* The metrics the analyzer derives from a channel
MetricsOf(c) ==
    CASE c = "Throttle" -> {"throttle_smoothness", "avg_throttle_application", "percent_throttle_on"}
      [] c = "Brake" -> {"brake_smoothness", "avg_brake_application", "num_braking_events"}
      [] c = "SteeringAngle" -> {"steering_smoothness"}
      [] c = "Time" -> {}

\* C5: a stream of n identical samples (any n >= 0) has smoothness 0, for
\* throttle, brake and steering alike.
C5_ConstantStreamHasZeroSmoothness ==
    tpc = "done" =>
        \A c \in {"Throttle", "Brake", "SteeringAngle"} \cap DOMAIN telemetry :
            (\A i, j \in 1..Len(telemetry[c]) :
                telemetry[c][i] # None /\ telemetry[c][i] = telemetry[c][j])
            => IsZero(kpis[SmoothnessMetric(c)])

\* C6: for a table lacking a required channel, construction and
\* get_advanced_telemetry_kpis complete, a warning names each absent channel,
\* every metric of an absent channel is absent from the result map (not present
\* with value 0), and every metric of a present channel is reported.
C6_AbsentChannelMetricsAreOmitted ==
    /\ tpc \in {"ready", "done"} => warned = RequiredColumns \ DOMAIN telemetry
    /\ tpc = "done" =>
         \A c \in RequiredColumns :
            /\ c \notin DOMAIN telemetry => MetricsOf(c) \cap DOMAIN kpis = {}
            /\ c \in DOMAIN telemetry => MetricsOf(c) \subseteq DOMAIN kpis

\* C6 witness: a table without Brake but with throttle and steering samples,
\* analysed: the braking metrics are missing, the others are there.
C6_Witness ==
    /\ tpc = "done"
    /\ DOMAIN telemetry = {"Time", "Throttle", "SteeringAngle"}
    /\ Len(telemetry["Throttle"]) = 3
    /\ "Brake" \in warned
    /\ DOMAIN kpis = {"throttle_smoothness", "steering_smoothness",
                      "avg_throttle_application", "percent_throttle_on"}

----------------------------------------------------------------------------
(* Properties of the grade bands (specification GradeSpec) *)

GradeOrder == <<"D", "C-", "C", "C+", "B-", "B", "B+", "A-", "A", "A+">>
GradeRank(g) == CHOOSE r \in 1..Len(GradeOrder) : GradeOrder[r] = g

\* The bands of the claim: the grade of rank r >= 2 starts at 40 + 5*r, and D
\* is everything below 50
C10_Band(score) ==
    IF score.nan \/ score.num < 50 * score.den THEN "D"
    ELSE GradeOrder[CHOOSE r \in 2..10 :
            /\ (40 + 5 * r) * score.den <= score.num
            /\ (r < 10 => score.num < (45 + 5 * r) * score.den)]

\* C10: the grade is a total, monotone function of the composite score with the
\* bands >=90 A+, >=85 A, >=80 A-, >=75 B+, >=70 B, >=65 B-, >=60 C+, >=55 C,
\* >=50 C-, else D: 92 is A+, 58 is C, 40 is D, every score has exactly one
\* grade and a higher score never has a lower grade.
C10_GradeBandsAreTotalAndMonotone ==
    gpc = "graded" =>
        /\ \A i \in 1..2 :
              /\ grades[i] \in {GradeOrder[r] : r \in 1..Len(GradeOrder)}
              /\ grades[i] = C10_Band(scores[i])
              /\ scores[i] = Real(92, 1) => grades[i] = "A+"
              /\ scores[i] = Real(58, 1) => grades[i] = "C"
              /\ scores[i] = Real(40, 1) => grades[i] = "D"
        /\ (~scores[1].nan /\ ~scores[2].nan /\ scores[1].num <= scores[2].num)
           => GradeRank(grades[1]) <= GradeRank(grades[2])

\* C10 witness: the scores 92 and 58 graded A+ and C.
C10_Witness ==
    /\ gpc = "graded"
    /\ scores = <<Real(92, 1), Real(58, 1)>>
    /\ grades = <<"A+", "C">>

----------------------------------------------------------------------------
(* Properties of the KPI report (specification KpiSpec) *)

Reported == kpc \in {"done", "reported", "exported"}

InputConsistencyIndex == Get(kpi_summary, "consistency_index", R0)
InputTrend == Get(kpi_summary, "lap_progression_trend", R0)

\* |a - b| <= 1/20: b is a to one decimal place
ToOneDecimal(a, b) == RLe(RAbs(RSub(a, b)), Real(1, 20))

InRange0To100(x) == RLe(R0, x) /\ RLe(x, Real(100, 1))

\* max(0, 100 - 1000*c) for a real c
C11_ConsistencyScore(c) ==
    IF RLe(Real(1, 10), c) THEN R0 ELSE RSub(Real(100, 1), RMul(Real(1000, 1), c))

\* clamp(0, 100, 50 + 500*t) for a real t
C11_ProgressionScore(t) ==
    IF RLe(t, Real(-1, 10)) THEN R0
    ELSE IF RLe(Real(1, 10), t) THEN Real(100, 1)
    ELSE RAdd(Real(50, 1), RMul(Real(500, 1), t))

\* C11: the composite score is the mean of pace_score = 50, consistency_score =
\* max(0, 100 - 1000*consistency_index) and progression_score = clamp(0, 100,
\* 50 + 500*trend), and each of the three component scores lies in [0, 100].
\* The report shows the scores to one decimal place; for a consistency index or
\* trend that is not a number the component is still in [0, 100].
C11_CompositeScoreIsMeanOfComponents ==
    Reported =>
        LET ps == report.performance_summary
            c == InputConsistencyIndex
            t == InputTrend
        IN  /\ ps.pace_score = Real(50, 1)
            /\ InRange0To100(ps.consistency_score)
            /\ InRange0To100(ps.progression_score)
            /\ InRange0To100(report.consistency_metrics.consistency_score)
            /\ ~c.nan =>
                 /\ report.consistency_metrics.consistency_score = C11_ConsistencyScore(c)
                 /\ ToOneDecimal(C11_ConsistencyScore(c), ps.consistency_score)
            /\ ~t.nan => ToOneDecimal(C11_ProgressionScore(t), ps.progression_score)
            /\ (~c.nan /\ ~t.nan) =>
                 ToOneDecimal(RDiv(RAdd(Real(50, 1),
                                        RAdd(C11_ConsistencyScore(c), C11_ProgressionScore(t))),
                                   Real(3, 1)),
                              ps.overall_performance_score)
            /\ RLe(Real(50, 3), RAdd(ps.overall_performance_score, Real(1, 20)))
            /\ RLe(ps.overall_performance_score, RAdd(Real(250, 3), Real(1, 20)))

\* C11 witness: consistency index 0.015 and trend 0.05 give the scores 50, 85
\* and 75 and the composite score 70.
C11_Witness ==
    /\ Reported
    /\ InputConsistencyIndex = Norm(15, 1000)
    /\ InputTrend = Norm(50, 1000)
    /\ report.performance_summary.consistency_score = Real(85, 1)
    /\ report.performance_summary.progression_score = Real(75, 1)
    /\ report.performance_summary.overall_performance_score = Real(70, 1)

RatingOrder == <<"Excellent", "Good", "Average", "Poor", "Very Poor">>
RatingRank(rating) == CHOOSE r \in 1..Len(RatingOrder) : RatingOrder[r] = rating

\* The rating of the claim: that of the least threshold (in hundredths) the
\* index does not exceed
C12_Rating(c) ==
    LET fits == {k \in {1, 2, 3, 5} : ~c.nan /\ 100 * c.num <= k * c.den}
    IN  IF fits = {} THEN "Very Poor"
        ELSE LET least == CHOOSE k \in fits : \A j \in fits : k <= j
             IN  CASE least = 1 -> "Excellent"
                   [] least = 2 -> "Good"
                   [] least = 3 -> "Average"
                   [] least = 5 -> "Poor"

\* C12: the consistency rating follows from consistency_index by the thresholds
\* <=0.01 Excellent, <=0.02 Good, <=0.03 Average, <=0.05 Poor, else Very Poor;
\* the rating never improves as the index increases; and the consistency_score
\* of consistency_metrics is max(0, 100 - 1000*consistency_index).
C12_ConsistencyRatingFollowsThresholds ==
    /\ Reported =>
         LET cm == report.consistency_metrics
             c == InputConsistencyIndex
         IN  /\ cm.consistency_index = c
             /\ cm.consistency_rating = C12_Rating(c)
             /\ ~c.nan =>
                  cm.consistency_score =
                     (IF 1000 * c.num >= 100 * c.den THEN R0
                      ELSE Norm(100 * c.den - 1000 * c.num, c.den))
             /\ c.nan => cm.consistency_score = R0
    /\ \A a, b \in ConsistencyAlphabet :
         RLe(a, b) => RatingRank(ConsistencyRating(a)) <= RatingRank(ConsistencyRating(b))

\* C12 witness: the index 0.02, on a threshold, is rated Good with score 80.
C12_Witness ==
    /\ Reported
    /\ InputConsistencyIndex = Norm(20, 1000)
    /\ report.consistency_metrics.consistency_rating = "Good"
    /\ report.consistency_metrics.consistency_score = Real(80, 1)

\* Every entry of the inputs that is present is of the expected kind: sector
\* entries are mappings, vehicle tables are tables, times are finite
C13_PresentInputsWellFormed ==
    /\ \A key \in {"best_lap_time", "average_lap_time", "theoretical_best"} :
          IsFinite(Get(kpi_summary, key, R0))
    /\ LET sa == Get(kpi_summary, "sector_analysis", <<>>)
       IN  \A i \in 1..Len(sa) :
              sa[i].mapping /\ IsFinite(Get(sa[i].data, "best_time", R0))
    /\ \A key \in DOMAIN kpi_vehicle :
          NotNull(kpi_vehicle[key]) => Val(kpi_vehicle[key]).table

\* The lap summary with each absent key set to its default
C13_SummaryWithDefaults ==
    [key \in SummaryKeys |->
        IF key \in DOMAIN kpi_summary THEN kpi_summary[key]
        ELSE IF key = "sector_analysis" THEN <<>>
        ELSE IF key = "valid_laps" THEN 0
        ELSE R0]

\* The metadata with each absent key set to its default
C13_MetadataWithDefaults ==
    [key \in DOMAIN FullMetadata |->
        IF key \in DOMAIN kpi_metadata THEN kpi_metadata[key]
        ELSE IF key = "session_id" THEN "unknown"
        ELSE IF key = "session_path" THEN ""
        ELSE "Unknown"]

\* C13: whatever keys the lap summary (and the metadata) lack, down to the
\* empty summary, calculate_session_kpis raises nothing, takes 0 / empty /
\* "Unknown" for each absent input, and returns a report with session_info,
\* lap_performance, consistency_metrics, sector_performance,
\* session_progression, performance_summary and session_rating.
C13_AbsentInputsTakeDefaults ==
    C13_PresentInputsWellFormed =>
        /\ kpc # "failed" /\ kexc = "none"
        /\ Reported =>
             /\ {"session_info", "lap_performance", "consistency_metrics",
                 "sector_performance", "session_progression", "performance_summary",
                 "session_rating"} \subseteq DOMAIN report
             /\ \A key \in {"track", "vehicle", "driver"} \ DOMAIN kpi_metadata :
                   report.session_info[key] = "Unknown"
             /\ "best_lap_time" \notin DOMAIN kpi_summary =>
                   report.lap_performance.best_lap_time_seconds = R0
             /\ "sector_analysis" \notin DOMAIN kpi_summary =>
                   report.sector_performance.sector_count = 0
             /\ "valid_laps" \notin DOMAIN kpi_summary =>
                   report.session_progression.session_length_laps = 0
             /\ report \in CalculateSessionKpis(C13_MetadataWithDefaults,
                              report.session_info.analysis_timestamp,
                              C13_SummaryWithDefaults, kpi_vehicle, kpi_telemetry)

\* C13 witness: the empty summary and metadata without a track give a report
\* with track "Unknown", best lap 0 and grade from the defaults.
C13_Witness ==
    /\ Reported
    /\ DOMAIN kpi_summary = {}
    /\ "track" \notin DOMAIN kpi_metadata
    /\ report.session_info.track = "Unknown"
    /\ report.lap_performance.best_lap_time_seconds = R0
    /\ report.consistency_metrics.consistency_rating = "Excellent"
    /\ "session_rating" \in DOMAIN report

\* The section whose computation raises on the inputs, stated on the inputs: a
\* sector entry that is not a mapping, or a fuel / aero table that is not a table
C14_MalformedSection ==
    LET sa == Get(kpi_summary, "sector_analysis", <<>>)
    IN  IF \E i \in 1..Len(sa) : ~sa[i].mapping THEN "sector_performance"
        ELSE IF \E key \in {"fuel", "aero_map"} \cap DOMAIN kpi_vehicle :
                   NotNull(kpi_vehicle[key]) /\ ~Val(kpi_vehicle[key]).table
             THEN "vehicle_performance"
        ELSE "none"

\* C14: an exception raised while one section of the report is computed (such
\* as vehicle_performance or sector_performance on malformed input) does not
\* keep the other sections from being computed and returned: the call still
\* yields a report with every other section.
C14_SectionFailureLeavesOtherSections ==
    (kpc # "input" /\ C14_MalformedSection # "none") =>
        /\ Reported
        /\ ({"session_info", "lap_performance", "consistency_metrics",
             "sector_performance", "session_progression", "performance_summary",
             "session_rating"} \ {C14_MalformedSection}) \subseteq DOMAIN report

\* C17: writing a report whose numbers include NaN or an infinity (the JSON
\* report and export_kpis_to_json) never fails, and each such value is written
\* as a string, not as a bare token that is not JSON.
C17_NonFiniteValuesAreWrittenAsStrings ==
    /\ kpc \in {"reported", "exported"} =>
         /\ DOMAIN json_report = DOMAIN ReportFloats(report)
         /\ \A p \in DOMAIN json_report :
               ~IsFinite(ReportFloats(report)[p]) => json_report[p].kind = "string"
    /\ kpc = "exported" =>
         /\ DOMAIN json_kpis = DOMAIN ReportFloats(report)
         /\ \A p \in DOMAIN json_kpis :
               ~IsFinite(ReportFloats(report)[p]) => json_kpis[p].kind = "string"

----------------------------------------------------------------------------
(* Properties of the time tokens and of the region detection *)

\* float() accepts the stripped token
IsBareDecimal(tok) == NotNull(ParseFloat(Strip(tok)))

\* The sector time a token stands for: a time m:ss.mmm or a bare decimal
TokenTime(cell) ==
    IF NotNull(cell) /\ (IsValidTime(Val(cell)) \/ IsBareDecimal(Val(cell)))
    THEN Some(ParseTimeToSeconds(Val(cell)))
    ELSE None

\* The sector rows of the raw table and the lap columns they fill
ParsedCell(k, n) == lapTable.rows[n].sectors[SectorColumnName(k, SectorRows(raw)[k])]

\* C18: once the table is parsed, the (sector, lap) entry of every cell is the
\* time of its token when the token is a time m:ss.mmm or a bare decimal
\* number, and null for every other token.
C18_BareDecimalAndTimeTokensYieldTimes ==
    (pc = "parsed" /\ lapTable # EmptyFrame) =>
        \A k \in 1..Len(SectorRows(raw)) : \A n \in 1..Len(lapTable.rows) :
            ParsedCell(k, n) = TokenTime(SectorRows(raw)[k].cells[n])

\* The first row, from the top, whose first cell holds a keyword in any case
FirstKeywordRow(df) ==
    IF \E i \in 1..Len(df.rows) : IsSectorHeaderRow(df.rows[i])
    THEN CHOOSE i \in 1..Len(df.rows) :
            /\ IsSectorHeaderRow(df.rows[i])
            /\ \A j \in 1..(i - 1) : ~IsSectorHeaderRow(df.rows[j])
    ELSE 0

\* The sector columns of a parsed frame
ParsedSectorColumns(frame) ==
    {frame.columns[i] : i \in {j \in 1..Len(frame.columns) :
                                StartsWith(frame.columns[j], TXT_sector_)}}

\* The stripped names of the named rows from row `from` on
NamesFrom(df, from) ==
    {Strip(Val(df.rows[i].first)) : i \in {j \in from..Len(df.rows) : IsNamedRow(df.rows[j])}}

\* The name a sector column carries after 'sector_<k>_'
NameOfColumn(col) == SubSeq(col, Len(TXT_sector_) + 3, Len(col))

\* C19: the sectors of the parsed table are those of the named rows from the
\* first keyword row on, so no row above it contributes one; a table with no
\* keyword row parses to the empty frame, and no exception is raised.
C19_ExtractionStartsAtFirstKeywordRow ==
    pc = "parsed" =>
        /\ exc = "none"
        /\ FirstKeywordRow(raw) = 0 => lapTable = EmptyFrame
        /\ (FirstKeywordRow(raw) # 0 /\ lapTable # EmptyFrame) =>
              /\ {NameOfColumn(c) : c \in ParsedSectorColumns(lapTable)}
                    = NamesFrom(raw, FirstKeywordRow(raw))
              /\ Cardinality(ParsedSectorColumns(lapTable))
                    = Cardinality({j \in FirstKeywordRow(raw)..Len(raw.rows) :
                                       IsNamedRow(raw.rows[j])})

C19_Witness ==
    /\ pc = "parsed"
    /\ FirstKeywordRow(raw) > 1
    /\ IsNamedRow(raw.rows[1])
    /\ lapTable # EmptyFrame

----------------------------------------------------------------------------
(* Properties of parse_vehicle_data *)

\* The table a readable file holds
TableOf(dir, key) == Some(Val(dir[VehicleFiles[key]]).content)
Exists(dir, key) == NotNull(dir[VehicleFiles[key]])
Readable(dir, key) == Exists(dir, key) /\ Val(dir[VehicleFiles[key]]).readable
SharedExists(key) == has_base_path /\ Exists(base_parquet, key)

\* C20: parse_vehicle_data returns an entry for each of the six keys: the
\* session-local table when that file exists, else the shared table when that
\* file exists, else null; a file that cannot be read gives null, and the
\* call returns for every state of the two directories.
C20_VehicleEntriesFallBackToSharedStore ==
    vpc = "parsed" =>
        /\ DOMAIN parsed_vehicle = {"fuel", "tire_temps_left", "tire_temps_right",
                                    "aero_map", "engine", "suspension"}
        /\ \A key \in DOMAIN parsed_vehicle :
              /\ Readable(session_parquet, key) =>
                    parsed_vehicle[key] = TableOf(session_parquet, key)
              /\ (~Exists(session_parquet, key) /\ SharedExists(key)
                     /\ Readable(base_parquet, key)) =>
                    parsed_vehicle[key] = TableOf(base_parquet, key)
              /\ (~Exists(session_parquet, key) /\ ~SharedExists(key)) =>
                    parsed_vehicle[key] = None
              /\ (Exists(session_parquet, key) /\ ~Readable(session_parquet, key)) =>
                    parsed_vehicle[key] = None
              /\ (~Exists(session_parquet, key) /\ SharedExists(key)
                     /\ ~Readable(base_parquet, key)) =>
                    parsed_vehicle[key] = None

C20_Witness ==
    /\ vpc = "parsed"
    /\ has_base_path
    /\ Readable(session_parquet, "fuel") /\ Readable(base_parquet, "fuel")
    /\ ~Exists(session_parquet, "aero_map") /\ Readable(base_parquet, "aero_map")
    /\ ~Exists(session_parquet, "engine") /\ ~Exists(base_parquet, "engine")
    /\ parsed_vehicle["fuel"] = TableOf(session_parquet, "fuel")
    /\ parsed_vehicle["aero_map"] = TableOf(base_parquet, "aero_map")
    /\ parsed_vehicle["engine"] = None

----------------------------------------------------------------------------
(* Properties of the session run and of the batch *)

\* The lap table is in neither directory
LapTableMissing(session) == IsNull(session.lap_session) /\ IsNull(session.lap_base)

\* The lap table is read, and no row of it holds a sector keyword
HeaderUndetectable(session) ==
    LET lap_file == IF IsNull(session.lap_session) THEN session.lap_base
                    ELSE session.lap_session
    IN  /\ NotNull(lap_file) /\ Val(lap_file).readable
        /\ \A i \in 1..Len(Val(lap_file).content.rows) :
              ~IsSectorHeaderRow(Val(lap_file).content.rows[i])

Reaches(run, step) == \E i \in 1..Len(run.steps) : run.steps[i] = step

\* C15: a session whose lap table is missing from both directories, or has
\* no detectable sector row, is still taken through lap analysis, KPI
\* aggregation and report generation, a KPI report is produced, and the lap
\* table is loaded once.
C15_MissingLapTableStillProducesReport ==
    \A i \in 1..Len(runs) :
        (/\ session_dirs[i].fault = "none"
         /\ LapTableMissing(session_dirs[i]) \/ HeaderUndetectable(session_dirs[i])) =>
            /\ Reaches(runs[i], "get_lap_summary")
            /\ Reaches(runs[i], "calculate_session_kpis")
            /\ Reaches(runs[i], "generate_comprehensive_report")
            /\ runs[i].report
            /\ Cardinality({j \in 1..Len(runs[i].steps) :
                               runs[i].steps[j] = "parse_lap_times"}) = 1

\* The sessions analysed so far whose flag is True
CountSuccessful == Cardinality({i \in 1..Len(runs) : runs[i].success})

\* C16: the session directories are analysed one after another, each exactly
\* once, whatever the earlier ones returned; an exception inside a session's
\* analysis gives the flag False and never ends the batch; at the end
\* successful + failed is the number of session directories and the value
\* returned is the number of successful sessions.
C16_BatchAnalysesEverySessionOnce ==
    /\ bpc # "aborted"
    /\ Len(runs) <= Len(session_dirs)
    /\ \A i \in 1..Len(runs) :
          /\ runs[i].dir = i
          /\ runs[i].raised => ~runs[i].success
    /\ successful = CountSuccessful
    /\ successful + failed = Len(runs)
    /\ (bpc = "done" /\ NotNull(sessions_dir)) =>
          /\ session_dirs = SessionDirs(Val(sessions_dir))
          /\ Len(runs) = Len(session_dirs)
          /\ successful + failed = Len(session_dirs)
          /\ returned = Some(successful)

C16_Witness ==
    /\ bpc = "done"
    /\ Len(session_dirs) = 3
    /\ Len(Val(sessions_dir)) = 3
    /\ runs[1].raised
    /\ ~runs[2].success /\ ~runs[2].raised
    /\ runs[3].success
    /\ returned = Some(1)

----------------------------------------------------------------------------
(* Properties of the lap records and of the progression trend *)

\* C22: constructing the analyzer and summarising leave the caller's frame as
\* it was, and every record of the analyzer's cleaned set is a record of that
\* frame, with its lap_number, sector values and total_lap_time.
C22_LapRecordsAreOnlyFiltered ==
    [][/\ pc \in {"parsed", "ready"} => lapTable' = lapTable
       /\ pc' \in {"ready", "analyzed"} =>
             \A i \in 1..Len(lap_data') :
                \E j \in 1..Len(lapTable'.rows) : lap_data'[i] = lapTable'.rows[j]]_vars

C22_Witness ==
    /\ pc = "analyzed"
    /\ Len(lap_data) >= 1
    /\ Len(lap_data) < Len(lapTable.rows)
    /\ lap_data[Len(lap_data)].lap_number > Len(lap_data)

\* The laps the analyzer holds, and the window of _analyze_lap_progression
C23_LapTimes == Totals(lap_data)
C23_Window == Min2(3, Len(lap_data) \div 2)

\* Python's lap_times[a:b] of the analyzer's laps, 0 <= a
C23_Laps(a, b) == [k \in 1..(b - a) |-> C23_LapTimes[a + k]]

\* C23: with n >= 2 cleaned laps and w = min(3, n div 2) the progression has
\* n - w deltas, the one of index i (w <= i < n) being the mean of the w laps
\* before the current window less the mean of the current window of w laps;
\* with fewer than 2 laps it is empty and the scalar trend is 0.
C23_ProgressionHasOneDeltaPerIndex ==
    pc = "analyzed" =>
        IF Len(lap_data) >= 2
        THEN /\ Len(result.lap_progression) = Len(lap_data) - C23_Window
             /\ \A k \in 1..Len(result.lap_progression) :
                   LET i == C23_Window + k - 1
                   IN  i >= 2 * C23_Window =>
                         FracEq(result.lap_progression[k],
                                FracSub(Mean(C23_Laps(i - 2 * C23_Window, i - C23_Window)),
                                        Mean(C23_Laps(i - C23_Window, i))))
        ELSE /\ result.lap_progression = <<>>
             /\ result.lap_progression_trend = Frac(0, 1)

----------------------------------------------------------------------------
(* Properties of the braking metrics *)

RECURSIVE C25_Filtered(_)
\* The samples above 0.10, in order
C25_Filtered(series) ==
    IF series = <<>> THEN <<>>
    ELSE (IF NotNull(series[1]) /\ Val(series[1]) > 10 THEN <<Val(series[1])>> ELSE <<>>)
         \o C25_Filtered(Tail(series))

RECURSIVE C25_Transitions(_)
\* The adjacent pairs of a series that differ by more than 0.10
C25_Transitions(s) ==
    IF Len(s) < 2 THEN 0
    ELSE (IF s[2] - s[1] > 10 \/ s[1] - s[2] > 10 THEN 1 ELSE 0) + C25_Transitions(Tail(s))

RECURSIVE C25_Zones(_, _)
\* The maximal runs of samples above 0.10; `braking` tells whether the sample
\* before the series was above it
C25_Zones(series, braking) ==
    IF series = <<>> THEN 0
    ELSE LET on == NotNull(series[1]) /\ Val(series[1]) > 10
         IN  (IF on /\ ~braking THEN 1 ELSE 0) + C25_Zones(Tail(series), on)

\* C25: with a Brake channel, avg_brake_application is the mean of the
\* samples above 0.10 (0 when there is none) and num_braking_events is the
\* number of adjacent pairs of those samples that differ by more than 0.10,
\* so it is less than the number of those samples.
C25_BrakingEventsCountFilteredTransitions ==
    (tpc = "done" /\ "Brake" \in DOMAIN telemetry) =>
        LET filtered == C25_Filtered(telemetry["Brake"])
        IN  /\ IF filtered = <<>>
               THEN kpis["avg_brake_application"] = Frac(0, 1)
               ELSE FracEq(kpis["avg_brake_application"], Mean(filtered))
            /\ kpis["num_braking_events"] = Frac(C25_Transitions(filtered), 1)
            /\ filtered # <<>> => kpis["num_braking_events"].num < Len(filtered)

\* Two braking zones and no event: the count is not the number of zones
C25_Witness ==
    /\ tpc = "done"
    /\ "Brake" \in DOMAIN telemetry
    /\ C25_Zones(telemetry["Brake"], FALSE) = 2
    /\ kpis["num_braking_events"] = Frac(0, 1)
    /\ kpis["avg_brake_application"].num > 0

----------------------------------------------------------------------------
(* Properties of the sector KPIs, the score range and the grade shown *)

\* The sector analysis handed in, and the consistency index of its i-th sector
C24_Sectors == Get(kpi_summary, "sector_analysis", <<>>)
C24_Consistency(i) == Get(C24_Sectors[i].data, "consistency", R0)
C24_Improvement(i) == Get(C24_Sectors[i].data, "improvement", R0)

RECURSIVE C24_SumImprovements(_)
C24_SumImprovements(i) ==
    IF i = 0 THEN R0 ELSE RAdd(C24_SumImprovements(i - 1), C24_Improvement(i))

\* C24: when the sector analysis is not empty, most_consistent_sector names a
\* sector whose consistency index is least among the sectors,
\* least_consistent_sector names one whose index is greatest, neither is left
\* unset, and overall_sector_improvement is the sum of the improvements.
\* Stated for sector analyses whose indices are numbers.
C24_BothExtremeSectorsAreNamed ==
    (/\ Reported
     /\ C24_Sectors # <<>>
     /\ \A i \in 1..Len(C24_Sectors) : ~C24_Consistency(i).nan) =>
        LET sp == report.sector_performance
        IN  /\ \E i \in 1..Len(C24_Sectors) :
                  /\ sp.most_consistent_sector = Some(C24_Sectors[i].name)
                  /\ \A j \in 1..Len(C24_Sectors) : RLe(C24_Consistency(i), C24_Consistency(j))
            /\ \E i \in 1..Len(C24_Sectors) :
                  /\ sp.least_consistent_sector = Some(C24_Sectors[i].name)
                  /\ \A j \in 1..Len(C24_Sectors) : RLe(C24_Consistency(j), C24_Consistency(i))
            /\ sp.overall_sector_improvement = C24_SumImprovements(Len(C24_Sectors))

C29_GradeMatchesScoreShown ==
    Reported =>
        report.performance_summary.performance_grade
            = GradeOf(report.performance_summary.overall_performance_score)

\* "Excellent lap time consistency" is among the strengths listed
C30_ListsConsistency(strengths) ==
    \E i \in 1..Len(strengths) : strengths[i] = "Excellent lap time consistency"

\* C30: fed the zeroed lap summary of a session with no lap left, the report
\* shows consistency_rating "Excellent", consistency_score 100,
\* progression_score 50, overall_performance_score 66.7 with grade "B-", and
\* "Excellent lap time consistency" among key_strengths.
C30_ZeroLapSessionIsRatedExcellent ==
    (Reported /\ kpi_summary = ZeroSummary) =>
        /\ report.consistency_metrics.consistency_rating = "Excellent"
        /\ report.consistency_metrics.consistency_score = Real(100, 1)
        /\ report.performance_summary.consistency_score = Real(100, 1)
        /\ report.performance_summary.progression_score = Real(50, 1)
        /\ report.performance_summary.overall_performance_score = Norm(667, 10)
        /\ report.performance_summary.performance_grade = "B-"
        /\ C30_ListsConsistency(report.performance_summary.key_strengths)

C30_Witness ==
    /\ kpc = "exported"
    /\ kpi_summary = ZeroSummary
    /\ kpi_metadata = FullMetadata
    /\ report.session_progression.session_length_laps = 0
    /\ C30_ListsConsistency(report.performance_summary.key_strengths)

----------------------------------------------------------------------------
(* Properties of the metadata extraction (specification MetadataSpec) *)

\* The rows of the table get_session_metadata read, <<>> when it read none
C21_RowsRead ==
    LET f == TelemetryFile(driverinputs, base_driverinputs, base_given)
    IN  IF IsNull(f) \/ ~Val(f).readable THEN <<>> ELSE Val(f).content.rows

C21_Words == [track |-> TXT_Venue, vehicle |-> TXT_Vehicle, driver |-> TXT_Driver]

\* The rows among the first 10 whose leading cell carries a quoted marker of the key
C21_MarkerRows(key) ==
    {i \in 1..Min2(10, Len(C21_RowsRead)) :
        NotNull(SearchMarker(C21_Words[key], StrCell(C21_RowsRead[i][1])))}

\* C21: track, vehicle and driver each show the value of the first row among
\* the first 10 rows of the telemetry table whose leading cell carries a quoted
\* marker for the key, later marker rows do not override it, and a key with no
\* marker shows "Unknown".
C21_FirstMarkerRowWinsPerKey ==
    mpc = "info" =>
        \A key \in DOMAIN C21_Words :
            IF C21_MarkerRows(key) = {} THEN session_info[key] = "Unknown"
            ELSE session_info[key] =
                    Str(Val(SearchMarker(C21_Words[key],
                            StrCell(C21_RowsRead[LeastOf(C21_MarkerRows(key))][1]))))

----------------------------------------------------------------------------
(* Properties of the telemetry ingestion (specification IngestSpec) *)

\* The rows of the table parse_telemetry_data read, None when it read none
C26_RowsRead ==
    LET f == TelemetryFile(driverinputs, base_driverinputs, base_given)
    IN  IF IsNull(f) \/ ~Val(f).readable THEN None ELSE Some(Val(f).content.rows)

\* At least two of the four channel tokens occur in cells of the row
C26_Qualifies(row) ==
    Cardinality({t \in {TXT_time, TXT_throttle, TXT_brake, TXT_steeringangle} :
        \E j \in 1..Len(row) : NotNull(row[j]) /\ Contains(Lower(Val(row[j])), t)}) >= 2

C26_Qualifying == {i \in 1..Len(Val(C26_RowsRead)) : C26_Qualifies(Val(C26_RowsRead)[i])}

\* C26: the header is the first row from the top in which at least 2 of the 4
\* tokens time, throttle, brake, steeringangle occur; the data rows are exactly
\* the rows after it, in their order (numeric channels coerced cell by cell);
\* when no row qualifies the result is an empty table, not an exception.
C26_HeaderIsFirstQualifyingRow ==
    (ipc # "file" /\ NotNull(C26_RowsRead)) =>
        \A qualifying \in {C26_Qualifying} :
            IF qualifying = {} THEN parsed_telemetry = Some(EmptyTable)
            ELSE NotNull(parsed_telemetry) =>
                 \A rows \in {Val(C26_RowsRead)} : \A h \in {LeastOf(qualifying)} :
                    LET frame == Val(parsed_telemetry)
                    IN  /\ Len(frame.rows) = Len(rows) - h
                        /\ \A k \in 1..Len(frame.rows) : \A i \in 1..Len(frame.columns) :
                              frame.rows[k][i] = IF frame.columns[i] \in NumericColumns
                                                 THEN ToNumeric(rows[h + k][i])
                                                 ELSE rows[h + k][i]

\* A header on the third row, under two rows that do not qualify, and two data rows
C26_Witness ==
    /\ ipc = "parsed"
    /\ NotNull(C26_RowsRead)
    /\ C26_Qualifying # {}
    /\ LeastOf(C26_Qualifying) = 3
    /\ Cardinality(C26_Qualifying) = 1
    /\ NotNull(parsed_telemetry)
    /\ Len(Val(parsed_telemetry).rows) = 2
    /\ Len(Val(C26_RowsRead)) = 5

C27_Aliases ==
    [Time |-> {TXT_time}, Throttle |-> {TXT_throttle}, Brake |-> {TXT_brake},
     SteeringAngle |-> {TXT_steeringangle, <<"s","t","e","e","r","i","n","g">>}]
C27_FallbackPosition == [Time |-> 1, Throttle |-> 2, Brake |-> 3, SteeringAngle |-> 4]

\* Column i is one the ingestion recognises as channel c: its header cell
\* names the channel, or the fallback list gives it the channel's place
C27_Recognised(i, c) ==
    LET rows       == Val(C26_RowsRead)
        header_row == rows[HeaderRowIdx(rows)]
    IN  IF IsConcatenatedHeader(header_row)
        THEN Len(header_row) >= Len(PotentialCols) /\ i = C27_FallbackPosition[c]
        ELSE Lower(CleanHeaderName(header_row[i])) \in C27_Aliases[c]

\* C27: once the analyzer has run on an ingested table, every column recognised
\* as Time, Throttle, Brake or steering carries the canonical name, and a
\* recognised steering column makes the analyzer report steering_smoothness.
C27_RecognisedChannelsGetCanonicalNames ==
    (ipc = "analysis" /\ tpc = "done") =>
        \A c \in RequiredColumns : \A i \in 1..Len(Val(parsed_telemetry).columns) :
            C27_Recognised(i, c) =>
                /\ Val(parsed_telemetry).columns[i] = RequiredText[c]
                /\ c = "SteeringAngle" => "steering_smoothness" \in DOMAIN kpis

====
